---- MODULE Spec2Model ----
(***************************************************************************)
(* Coverage audits of epubverify against epubcheck: the enumerated-identity *)
(* audit (scripts/java-audit.py), the declarative-assertion audit          *)
(* (scripts/schematron-audit.py) and the structural-grammar audit          *)
(* (scripts/relaxng-audit.py).  One behaviour of the model is one process  *)
(* invocation of one of the three scripts.                                 *)
(*                                                                         *)
(* Strings that the code takes apart (check IDs) are sequences of tokens:  *)
(* "OPF-004a" is <<"OPF", "-", "004a">>, the enum symbol OPF_004a is       *)
(* <<"OPF", "_", "004a">>.                                                 *)
(***************************************************************************)
EXTENDS Integers, Sequences, FiniteSets, TLC

VARIABLES
    audit,        \* which script runs: "java", "schematron" or "relaxng"
    pc,           \* position in main()
    trace,        \* the stages main() has run, in order
    skip_update,  \* args.skip_update
    netOps,       \* git operations that use the network, in order
    stderr,       \* WARNING / ERROR lines printed to stderr, in order
    stdout,       \* what the report emitter printed (NoReport before)
    exit_code,    \* process exit status (Running until the process ends)
    absent,       \* the optional reference resources the run found absent
    known_overrides, \* java-audit: KNOWN_OVERRIDES, dict code -> [status, note]
    messages,     \* java-audit: dict code -> MessageInfo
    result,       \* AuditResult (NoResult before generate_report / audit)
    known_checks, \* schematron-audit, relaxng-audit: KNOWN_CHECKS
    checks,       \* schematron-audit: list of SchematronCheck
    elements,     \* relaxng-audit: the ElementDefs of the dict, in its order
    content_rules, \* relaxng-audit: dict parent element -> ContentRule
    raw_patterns, \* relaxng-audit: dict pattern name -> definition text
    gaps,         \* relaxng-audit: list of GapItem
    written       \* files written below the fixture directory, in order

vars == <<audit, pc, trace, skip_update, netOps, stderr, stdout, exit_code,
          absent, known_overrides, messages, result, known_checks, checks,
          elements, content_rules, raw_patterns, gaps, written>>

\* the variables of one script that the other scripts leave alone
javaVars == <<known_overrides, messages>>
schVars  == <<checks>>
rngVars  == <<elements, content_rules, raw_patterns, gaps>>
notJava  == <<known_checks, checks, elements, content_rules, raw_patterns,
              gaps, written>>

-----------------------------------------------------------------------------
(* Bounds of the model *)

\* number of check IDs the reference enumeration can define
NumCodes == 2

\* number of files of CORE_SCHEMAS a run of schematron-audit visits
NumSchemas == 3

\* number of files of the grammar file list a run of relaxng-audit visits
NumGrammars == 2

-----------------------------------------------------------------------------
(* Generic helpers *)

Running  == "running"
NoReport == [kind |-> "none"]
NoResult == [kind |-> "none"]
EmptyMap == [x \in {} |-> x]

Range(s) == {s[i] : i \in DOMAIN s}

\* a line on stderr: print(f"WARNING: {what} not found ...", file=sys.stderr)
Warning(what) == [level |-> "WARNING", what |-> what]
Error(what)   == [level |-> "ERROR", what |-> what]
Notice(what)  == [level |-> "NOTICE", what |-> what]

Min(a, b) == IF a < b THEN a ELSE b

\* s[:n]
Take(s, n) == SubSeq(s, 1, Min(n, Len(s)))

\* all orders (sequences without repetition) of a finite set
Perms(S) == {p \in [1..Cardinality(S) -> S] : Range(p) = S}

-----------------------------------------------------------------------------
(* java-audit.py: check IDs *)

\* The IDs the bounded enumeration can define, in increasing string order
\* ("OPF-004" < "OPF-004a" < "RSC-005" < "RSC-016").
CodeNames == << <<"OPF", "-", "004">>, <<"OPF", "-", "004a">>,
                <<"RSC", "-", "005">>, <<"RSC", "-", "016">> >>

Codes == {CodeNames[i] : i \in 1..NumCodes}

\* an ID that the enumeration never defines
ForeignCode == <<"XXX", "-", "999">>

\* position of a code in string order (the sort key of sorted(..., key=m.code))
CodeRank(code) ==
    IF code = ForeignCode THEN Len(CodeNames) + 1
    ELSE CHOOSE i \in 1..Len(CodeNames) : CodeNames[i] = code

\* str.replace(old, new) on a token sequence
Replace(s, old, new) == [i \in DOMAIN s |-> IF s[i] = old THEN new ELSE s[i]]

\* a normalisation that keeps the separator of the enum line
NormalizeCode_keep(raw) == raw

\* java-audit.py:379  m.group(1).replace("_", "-")
NormalizeCode(raw) == Replace(raw, "_", "-")

\* java-audit.py:380  code.split("-")[0]
RECURSIVE SplitFirst(_, _)
SplitFirst(s, sep) ==
    IF s = <<>> \/ Head(s) = sep THEN <<>>
    ELSE <<Head(s)>> \o SplitFirst(Tail(s), sep)

CategoryOf(code) == SplitFirst(code, "-")

\* java-audit.py:406  re.sub(r'^([A-Z]+)_(\d+)(.*)', r'\1-\2\3', enum_name):
\* only the separator after the leading letters is rewritten
EnumNameToCode(enum_name) ==
    IF Len(enum_name) >= 3 /\ enum_name[2] = "_"
    THEN [enum_name EXCEPT ![2] = "-"]
    ELSE enum_name

\* java-audit.py:450  code.replace("-", "_")
CodeToEnumName(code) == Replace(code, "-", "_")

\* sorted(codes): the codes of a set in increasing string order
RECURSIVE SortCodes(_)
SortCodes(S) ==
    IF S = {} THEN <<>>
    ELSE LET least == CHOOSE c \in S : \A d \in S : CodeRank(c) <= CodeRank(d)
         IN  <<least>> \o SortCodes(S \ {least})

-----------------------------------------------------------------------------
(* java-audit.py: data structures *)

Severities == {"SUPPRESSED", "ERROR"}

\* the statuses an Override Entry may carry (java-audit.py:97-100 and the
\* entries of KNOWN_OVERRIDES)
OverrideStatuses == {"implemented", "partial", "wontfix", "note"}

\* the five buckets of AuditResult
Buckets == {"implemented", "suppressed", "wontfix", "partial", "missing"}

MessageInfo(code, category) ==
    [code            |-> code,
     severity        |-> "",
     message_text    |-> "",
     java_files      |-> <<>>,
     category        |-> category,
     in_go_code      |-> FALSE,
     in_bdd_tests    |-> FALSE,
     override_status |-> "",
     override_note   |-> ""]

\* a status that consults the evidence of the tool before the override
status_evidence_first(msg) ==
    IF msg.severity = "SUPPRESSED" THEN "suppressed"
    ELSE IF msg.in_go_code THEN "implemented"
    ELSE IF msg.override_status # "" THEN msg.override_status
    ELSE "missing"

\* MessageInfo.status
status(msg) ==
    IF msg.override_status # "" THEN msg.override_status
    ELSE IF msg.severity = "SUPPRESSED" THEN "suppressed"
    ELSE IF msg.in_go_code THEN "implemented"
    ELSE "missing"

-----------------------------------------------------------------------------
(* java-audit.py: extraction passes *)

\* parse_message_ids, lines 371-381: `lines` are the string values of the
\* enum lines the pattern matches, in file order
parse_message_ids(lines) ==
    [code \in {NormalizeCode(lines[i]) : i \in DOMAIN lines}
        |-> MessageInfo(code, CategoryOf(code))]

\* parse_severities, lines 399-409: `lines` are the <<enum_name, severity>>
\* pairs of the severities.put(...) lines, in file order
RECURSIVE parse_severities(_, _)
parse_severities(msgs, lines) ==
    IF lines = <<>> THEN msgs
    ELSE LET code == EnumNameToCode(Head(lines)[1])
             next == IF code \in DOMAIN msgs
                     THEN [msgs EXCEPT ![code].severity = Head(lines)[2]]
                     ELSE msgs
         IN  parse_severities(next, Tail(lines))

\* parse_message_texts, lines 425-435: `lines` are records
\* [key, sug, text]: the key before "=", whether the line holds "_SUG",
\* and the text after "="
RECURSIVE parse_message_texts(_, _)
parse_message_texts(msgs, lines) ==
    IF lines = <<>> THEN msgs
    ELSE LET line == Head(lines)
             code == Replace(line.key, "_", "-")
             next == IF ~line.sug /\ code \in DOMAIN msgs
                     THEN [msgs EXCEPT ![code].message_text = line.text]
                     ELSE msgs
         IN  parse_message_texts(next, Tail(lines))

\* The Java files of the reference snapshot (file stems) and the enum names
\* each one mentions as MessageId.XXX, in text order.
JavaFiles == {"MessageId", "DefaultSeverities", "OPFChecker", "XHTMLChecker"}

JavaFileRefs(f) ==
    LET all == [i \in 1..NumCodes |-> CodeToEnumName(CodeNames[i])]
    IN  CASE f = "MessageId"         -> all
          [] f = "DefaultSeverities" -> all
          [] f = "OPFChecker"        -> all \o all
          [] f = "XHTMLChecker"      -> <<CodeToEnumName(CodeNames[1]),
                                          CodeToEnumName(ForeignCode)>>

\* a scan of one file that appends the short name for every match
RECURSIVE ScanJavaFile_appends_always(_, _, _)
ScanJavaFile_appends_always(msgs, short_name, refs) ==
    IF refs = <<>> THEN msgs
    ELSE LET known == \E c \in DOMAIN msgs : CodeToEnumName(c) = Head(refs)
             code  == CHOOSE c \in DOMAIN msgs : CodeToEnumName(c) = Head(refs)
             next == IF known
                     THEN [msgs EXCEPT ![code].java_files = Append(@, short_name)]
                     ELSE msgs
         IN  ScanJavaFile_appends_always(next, short_name, Tail(refs))

\* find_java_emitters, lines 471-477: the matches of one file
RECURSIVE ScanJavaFile(_, _, _)
ScanJavaFile(msgs, short_name, refs) ==
    IF refs = <<>> THEN msgs
    ELSE LET \* enum_to_code maps code.replace("-", "_") to code
             known == \E c \in DOMAIN msgs : CodeToEnumName(c) = Head(refs)
             code  == CHOOSE c \in DOMAIN msgs : CodeToEnumName(c) = Head(refs)
             next == IF known /\ short_name \notin Range(msgs[code].java_files)
                     THEN [msgs EXCEPT ![code].java_files = Append(@, short_name)]
                     ELSE msgs
         IN  ScanJavaFile(next, short_name, Tail(refs))

\* find_java_emitters, lines 457-477: `order` is the order in which
\* java_dir.rglob("*.java") yields the files
RECURSIVE find_java_emitters(_, _)
find_java_emitters(msgs, order) ==
    IF order = <<>> THEN msgs
    ELSE LET f == Head(order)
             next == IF f \in {"MessageId", "DefaultSeverities"} THEN msgs
                     ELSE ScanJavaFile(msgs, f, JavaFileRefs(f))
         IN  find_java_emitters(next, Tail(order))

\* a source scanner that also marks the IDs it finds as tested
find_go_implementations_marks_tested(msgs, go_codes) ==
    [code \in DOMAIN msgs |->
        IF code \in go_codes
        THEN [msgs[code] EXCEPT !.in_go_code = TRUE, !.in_bdd_tests = TRUE]
        ELSE msgs[code]]

\* find_go_implementations, lines 499-503: `go_codes` is the set of quoted
\* tokens of canonical ID shape found in the Go files
find_go_implementations(msgs, go_codes) ==
    [code \in DOMAIN msgs |->
        IF code \in go_codes THEN [msgs[code] EXCEPT !.in_go_code = TRUE]
        ELSE msgs[code]]

\* find_bdd_coverage, lines 527-531
find_bdd_coverage(msgs, bdd_codes) ==
    [code \in DOMAIN msgs |->
        IF code \in bdd_codes THEN [msgs[code] EXCEPT !.in_bdd_tests = TRUE]
        ELSE msgs[code]]

\* an override pass that also makes a record for every ID of the table
apply_overrides_adds(msgs, overrides) ==
    [code \in DOMAIN msgs \cup DOMAIN overrides |->
        IF code \in DOMAIN overrides
        THEN [(IF code \in DOMAIN msgs THEN msgs[code]
               ELSE MessageInfo(code, "OTHER"))
                 EXCEPT !.override_status = overrides[code].status,
                        !.override_note   = overrides[code].note]
        ELSE msgs[code]]

\* an override pass that leaves every record as it is
apply_overrides_none(msgs, overrides) == msgs

\* apply_overrides, lines 536-541: `overrides` is KNOWN_OVERRIDES, a dict
\* code -> [status, note]
apply_overrides(msgs, overrides) ==
    [code \in DOMAIN msgs |->
        IF code \in DOMAIN overrides
        THEN [msgs[code] EXCEPT !.override_status = overrides[code].status,
                                !.override_note   = overrides[code].note]
        ELSE msgs[code]]

-----------------------------------------------------------------------------
(* java-audit.py: report generation *)

\* a count in which scenario coverage promotes a missing rule
RECURSIVE CountMessages_bdd_promotes(_, _)
CountMessages_bdd_promotes(res, msgs) ==
    IF msgs = <<>> THEN res
    ELSE LET msg == Head(msgs)
             st  == IF status(msg) = "missing" /\ msg.in_bdd_tests
                    THEN "implemented" ELSE status(msg)
             r1  == IF st \in Buckets THEN [res EXCEPT ![st] = @ + 1] ELSE res
             r2  == IF msg.in_bdd_tests THEN [r1 EXCEPT !.tested = @ + 1] ELSE r1
         IN  CountMessages_bdd_promotes(r2, Tail(msgs))

\* generate_report, lines 554-568: the loop over result.messages
RECURSIVE CountMessages(_, _)
CountMessages(res, msgs) ==
    IF msgs = <<>> THEN res
    ELSE LET msg == Head(msgs)
             st  == status(msg)
             r1  == IF st = "implemented" THEN [res EXCEPT !.implemented = @ + 1]
                    ELSE IF st = "suppressed" THEN [res EXCEPT !.suppressed = @ + 1]
                    ELSE IF st = "wontfix" THEN [res EXCEPT !.wontfix = @ + 1]
                    ELSE IF st = "partial" THEN [res EXCEPT !.partial = @ + 1]
                    ELSE IF st = "missing" THEN [res EXCEPT !.missing = @ + 1]
                    ELSE res
             r2  == IF msg.in_bdd_tests THEN [r1 EXCEPT !.tested = @ + 1] ELSE r1
         IN  CountMessages(r2, Tail(msgs))

\* generate_report, lines 548-570
generate_report(msgs, commit) ==
    LET sorted == [i \in 1..Cardinality(DOMAIN msgs) |->
                      msgs[SortCodes(DOMAIN msgs)[i]]]
    IN  CountMessages([kind             |-> "result",
                       epubcheck_commit |-> commit,
                       total_codes      |-> Cardinality(DOMAIN msgs),
                       implemented      |-> 0,
                       tested           |-> 0,
                       suppressed       |-> 0,
                       wontfix          |-> 0,
                       missing          |-> 0,
                       partial          |-> 0,
                       messages         |-> sorted],
                      sorted)

\* print_text_report, lines 592-599: the per-category table; a status that
\* is no key of the row raises KeyError
CategoryRow == [implemented |-> 0, missing |-> 0, suppressed |-> 0,
                wontfix |-> 0, partial |-> 0, total |-> 0]

RECURSIVE CountCategories(_, _)
CountCategories(categories, msgs) ==
    IF msgs = <<>> THEN [raised |-> FALSE, table |-> categories]
    ELSE LET msg  == Head(msgs)
             cat  == msg.category
             c0   == IF cat \in DOMAIN categories THEN categories
                     ELSE [k \in DOMAIN categories \cup {cat} |->
                              IF k = cat THEN CategoryRow ELSE categories[k]]
             c1   == [c0 EXCEPT ![cat].total = @ + 1]
             st   == status(msg)
         IN  IF st \notin DOMAIN CategoryRow \ {"total"}
             THEN [raised |-> TRUE, table |-> c1]
             ELSE CountCategories(
                      [c1 EXCEPT ![cat] = [@ EXCEPT ![st] = @ + 1]], Tail(msgs))

\* print_text_report, lines 629-641
severity_order == <<"FATAL", "ERROR", "WARNING", "USAGE", "INFO", "UNKNOWN">>

SeverityGroup(msg) == IF msg.severity = "" THEN "UNKNOWN" ELSE msg.severity

MissingEntry(msg) ==
    [code |-> msg.code, java |-> Take(msg.java_files, 3), text |-> msg.message_text]

RECURSIVE MissingGroups(_, _)
MissingGroups(order, missing) ==
    IF order = <<>> THEN <<>>
    ELSE LET InGroup(m) == SeverityGroup(m) = Head(order)
             msgs == SelectSeq(missing, InGroup)
         IN  (IF msgs = <<>> THEN <<>>
              ELSE << [sev     |-> Head(order),
                       count   |-> Len(msgs),
                       entries |-> [i \in DOMAIN msgs |-> MissingEntry(msgs[i])]] >>)
             \o MissingGroups(Tail(order), missing)

\* what print_text_report prints (lines 573-664); when the category loop
\* raises KeyError only the aggregate counts have been printed
print_text_report(res, summary_only) ==
    LET counts == [total       |-> res.total_codes,
                   implemented |-> res.implemented,
                   tested      |-> res.tested,
                   suppressed  |-> res.suppressed,
                   wontfix     |-> res.wontfix,
                   partial     |-> res.partial,
                   missing     |-> res.missing]
        cats   == CountCategories(EmptyMap, res.messages)
        IsMissing(m)  == status(m) = "missing"
        IsPartial(m)  == status(m) = "partial"
        IsUntested(m) == /\ status(m) = "implemented"
                         /\ ~m.in_bdd_tests
                         /\ m.severity \notin {"SUPPRESSED", ""}
        missing  == SelectSeq(res.messages, IsMissing)
        partial  == SelectSeq(res.messages, IsPartial)
        untested == SelectSeq(res.messages, IsUntested)
        details  == ~cats.raised /\ ~summary_only
    IN  [kind           |-> "text",
         raised         |-> cats.raised,
         counts         |-> counts,
         categories     |-> IF cats.raised THEN EmptyMap ELSE cats.table,
         missing_header |-> IF details THEN Len(missing) ELSE 0,
         missing        |-> IF details THEN MissingGroups(severity_order, missing)
                            ELSE <<>>,
         partial        |-> IF details
                            THEN [i \in DOMAIN partial |->
                                     <<partial[i].code, partial[i].override_note>>]
                            ELSE <<>>,
         untested       |-> IF details
                            THEN [i \in DOMAIN untested |-> untested[i].code]
                            ELSE <<>>]

\* a JSON emitter that writes the partial count under "wontfix"
print_json_report_swapped(res) ==
    [kind             |-> "json",
     raised           |-> FALSE,
     epubcheck_commit |-> res.epubcheck_commit,
     summary          |-> [total       |-> res.total_codes,
                           implemented |-> res.implemented,
                           tested_bdd  |-> res.tested,
                           suppressed  |-> res.suppressed,
                           wontfix     |-> res.partial,
                           partial     |-> res.wontfix,
                           missing     |-> res.missing],
     messages         |-> <<>>]

\* what print_json_report prints (lines 667-696)
print_json_report(res) ==
    [kind             |-> "json",
     raised           |-> FALSE,
     epubcheck_commit |-> res.epubcheck_commit,
     summary          |-> [total       |-> res.total_codes,
                           implemented |-> res.implemented,
                           tested_bdd  |-> res.tested,
                           suppressed  |-> res.suppressed,
                           wontfix     |-> res.wontfix,
                           partial     |-> res.partial,
                           missing     |-> res.missing],
     messages         |-> [i \in DOMAIN res.messages |->
                              LET msg == res.messages[i]
                              IN  [code         |-> msg.code,
                                   severity     |-> msg.severity,
                                   message      |-> msg.message_text,
                                   category     |-> msg.category,
                                   java_files   |-> msg.java_files,
                                   status       |-> status(msg),
                                   in_go_code   |-> msg.in_go_code,
                                   in_bdd_tests |-> msg.in_bdd_tests,
                                   note         |-> msg.override_note]]]

-----------------------------------------------------------------------------
(* java-audit.py: the inputs of one run *)

\* MessageId.java: each ID of Codes is defined or not, and its string value
\* is written with "-" or with "_"
RECURSIVE EnumLines(_, _)
EnumLines(form, i) ==
    IF i > NumCodes THEN <<>>
    ELSE (IF form[i] = "absent" THEN <<>>
          ELSE << [CodeNames[i] EXCEPT ![2] = form[i]] >>)
         \o EnumLines(form, i + 1)

MessageIdFiles ==
    {EnumLines(form, 1) : form \in [1..NumCodes -> {"absent", "-", "_"}]}

\* DefaultSeverities.java: a table for every defined symbol and one symbol the
\* enumeration does not define; the first symbol may be bound twice
SevLine(code, sev) == <<CodeToEnumName(code), sev>>

AllSeverities(sev) ==
    [i \in 1..NumCodes |-> SevLine(CodeNames[i], sev)]
        \o <<SevLine(ForeignCode, sev)>>

DefaultSeveritiesFiles ==
    { <<>>,
      AllSeverities("ERROR"),
      AllSeverities("SUPPRESSED"),
      <<SevLine(CodeNames[1], "ERROR"), SevLine(CodeNames[1], "SUPPRESSED")>>,
      AllSeverities("SUPPRESSED") \o <<SevLine(CodeNames[1], "ERROR")>> }

\* MessageBundle.properties: a text for every symbol, a suggestion line and a
\* key the enumeration does not define
MessageBundleFiles ==
    { [i \in 1..NumCodes |->
          [key |-> CodeToEnumName(CodeNames[i]), sug |-> FALSE, text |-> "text"]]
      \o << [key |-> CodeToEnumName(CodeNames[1]), sug |-> TRUE, text |-> "hint"],
            [key |-> CodeToEnumName(ForeignCode), sug |-> FALSE, text |-> "text"] >>,
      << [key |-> CodeToEnumName(CodeNames[1]), sug |-> FALSE, text |-> "text"] >> }

\* quoted tokens in the Go source / codes in the feature files
EvidenceSets == {{}, {CodeNames[1]}, Codes \cup {ForeignCode}}

\* KNOWN_OVERRIDES: no entry, or an entry for the first ID and for an ID the
\* enumeration does not define
OverrideEntry(st) == [status |-> st, note |-> "note"]

\* KNOWN_OVERRIDES, lines 102-274, as the repository has it, for the IDs of
\* CodeNames: OPF-004 and OPF-004a (lines 142-143), RSC-005 (line 151) and
\* RSC-016 (line 153) are all recorded as implemented
KNOWN_OVERRIDES ==
    [c \in Range(CodeNames) |-> OverrideEntry("implemented")]

OverrideTables ==
    {EmptyMap, KNOWN_OVERRIDES} \cup
    { [c \in {CodeNames[1], ForeignCode} |-> OverrideEntry(st)] :
          st \in OverrideStatuses }

\* git log -1 --format=%H %s
Commit == "commit"

\* ensure_epubcheck, lines 325-348: the git operations that use the network
ensure_epubcheck(cache_exists, skip) ==
    IF cache_exists
    THEN (IF ~skip THEN <<"fetch">> ELSE <<>>)
    ELSE <<"clone">>

-----------------------------------------------------------------------------
(* java-audit.py: main(), lines 703-761 *)

Step(stage, next) ==
    /\ trace' = Append(trace, stage)
    /\ pc' = next

Exit(code) ==
    /\ exit_code' = code
    /\ pc' = "done"

\* Step 1: ensure_epubcheck; a failed clone raises CalledProcessError
JavaEnsureEpubcheck ==
    /\ audit = "java" /\ pc = "start"
    /\ UNCHANGED notJava
    /\ \E cache_exists \in BOOLEAN, clone_ok \in BOOLEAN :
          /\ netOps' = netOps \o ensure_epubcheck(cache_exists, skip_update)
          /\ trace' = Append(trace, "ensure_epubcheck")
          /\ IF ~cache_exists /\ ~clone_ok
             THEN Exit(1)
             ELSE pc' = "parse_message_ids" /\ UNCHANGED exit_code
    /\ UNCHANGED <<audit, skip_update, stderr, stdout, absent, known_overrides,
                   messages, result>>

\* a parse step that goes on with no IDs when MessageId.java is absent
JavaParseMessageIds_goes_on ==
    /\ audit = "java" /\ pc = "parse_message_ids"
    /\ UNCHANGED notJava
    /\ trace' = Append(trace, "parse_message_ids")
    /\ \/ /\ stderr' = Append(stderr, Error("MessageId.java"))
          /\ messages' = EmptyMap
       \/ \E lines \in MessageIdFiles :
             /\ messages' = parse_message_ids(lines)
             /\ UNCHANGED stderr
    /\ pc' = "parse_severities"
    /\ UNCHANGED <<audit, skip_update, netOps, stdout, exit_code, absent,
                   known_overrides, result>>

\* Step 2: parse_message_ids; no MessageId.java is fatal (lines 367-369)
JavaParseMessageIds ==
    /\ audit = "java" /\ pc = "parse_message_ids"
    /\ UNCHANGED notJava
    /\ trace' = Append(trace, "parse_message_ids")
    /\ \/ /\ stderr' = Append(stderr, Error("MessageId.java"))
          /\ Exit(1)
          /\ UNCHANGED messages
       \/ \E lines \in MessageIdFiles :
             /\ messages' = parse_message_ids(lines)
             /\ pc' = "parse_severities"
             /\ UNCHANGED <<stderr, exit_code>>
    /\ UNCHANGED <<audit, skip_update, netOps, stdout, absent, known_overrides,
                   result>>

\* Step 3: parse_severities; no DefaultSeverities.java is a warning
JavaParseSeverities ==
    /\ audit = "java" /\ pc = "parse_severities"
    /\ UNCHANGED notJava
    /\ Step("parse_severities", "parse_message_texts")
    /\ \/ /\ stderr' = Append(stderr, Warning("DefaultSeverities.java"))
          /\ absent' = absent \cup {"DefaultSeverities.java"}
          /\ UNCHANGED messages
       \/ \E lines \in DefaultSeveritiesFiles :
             /\ messages' = parse_severities(messages, lines)
             /\ UNCHANGED <<stderr, absent>>
    /\ UNCHANGED <<audit, skip_update, netOps, stdout, exit_code,
                   known_overrides, result>>

\* Step 4: parse_message_texts; no MessageBundle.properties is a warning
JavaParseMessageTexts ==
    /\ audit = "java" /\ pc = "parse_message_texts"
    /\ UNCHANGED notJava
    /\ Step("parse_message_texts", "find_java_emitters")
    /\ \/ /\ stderr' = Append(stderr, Warning("MessageBundle.properties"))
          /\ absent' = absent \cup {"MessageBundle.properties"}
          /\ UNCHANGED messages
       \/ \E lines \in MessageBundleFiles :
             /\ messages' = parse_message_texts(messages, lines)
             /\ UNCHANGED <<stderr, absent>>
    /\ UNCHANGED <<audit, skip_update, netOps, stdout, exit_code,
                   known_overrides, result>>

\* Step 5: find_java_emitters; no src/main/java is a warning
JavaFindJavaEmitters ==
    /\ audit = "java" /\ pc = "find_java_emitters"
    /\ UNCHANGED notJava
    /\ Step("find_java_emitters", "find_go_implementations")
    /\ \/ /\ stderr' = Append(stderr, Warning("src/main/java"))
          /\ absent' = absent \cup {"src/main/java"}
          /\ UNCHANGED messages
       \/ \E order \in Perms(JavaFiles) :
             /\ messages' = find_java_emitters(messages, order)
             /\ UNCHANGED <<stderr, absent>>
    /\ UNCHANGED <<audit, skip_update, netOps, stdout, exit_code,
                   known_overrides, result>>

\* Step 6: find_go_implementations
JavaFindGoImplementations ==
    /\ audit = "java" /\ pc = "find_go_implementations"
    /\ UNCHANGED notJava
    /\ Step("find_go_implementations", "find_bdd_coverage")
    /\ \E go_codes \in EvidenceSets :
          messages' = find_go_implementations(messages, go_codes)
    /\ UNCHANGED <<audit, skip_update, netOps, stderr, stdout, exit_code,
                   absent, known_overrides, result>>

\* a main() that goes from the test scanner straight to generate_report
JavaFindBddCoverage_then_report ==
    /\ audit = "java" /\ pc = "find_bdd_coverage"
    /\ UNCHANGED notJava
    /\ Step("find_bdd_coverage", "generate_report")
    /\ \/ UNCHANGED messages
       \/ \E bdd_codes \in EvidenceSets :
             messages' = find_bdd_coverage(messages, bdd_codes)
    /\ UNCHANGED <<audit, skip_update, netOps, stderr, stdout, exit_code,
                   absent, known_overrides, result>>

\* Step 7: find_bdd_coverage; returns at once when testdata/features is absent
JavaFindBddCoverage ==
    /\ audit = "java" /\ pc = "find_bdd_coverage"
    /\ UNCHANGED notJava
    /\ Step("find_bdd_coverage", "apply_overrides")
    /\ \/ UNCHANGED messages
       \/ \E bdd_codes \in EvidenceSets :
             messages' = find_bdd_coverage(messages, bdd_codes)
    /\ UNCHANGED <<audit, skip_update, netOps, stderr, stdout, exit_code,
                   absent, known_overrides, result>>

\* Step 8: apply_overrides
JavaApplyOverrides ==
    /\ audit = "java" /\ pc = "apply_overrides"
    /\ UNCHANGED notJava
    /\ Step("apply_overrides", "generate_report")
    /\ messages' = apply_overrides(messages, known_overrides)
    /\ UNCHANGED <<audit, skip_update, netOps, stderr, stdout, exit_code,
                   absent, known_overrides, result>>

\* Step 9: generate_report
JavaGenerateReport ==
    /\ audit = "java" /\ pc = "generate_report"
    /\ UNCHANGED notJava
    /\ Step("generate_report", "print_report")
    /\ result' = generate_report(messages, Commit)
    /\ UNCHANGED <<audit, skip_update, netOps, stderr, stdout, exit_code,
                   absent, known_overrides, messages>>

\* lines 754-757: print_json_report or print_text_report; a KeyError raised
\* by the text report ends the process with a traceback (status 1)
JavaPrintReport ==
    /\ audit = "java" /\ pc = "print_report"
    /\ UNCHANGED notJava
    /\ \E json \in BOOLEAN, summary \in BOOLEAN :
          IF json
          THEN /\ stdout' = print_json_report(result)
               /\ Step("print_json_report", "exit")
               /\ UNCHANGED exit_code
          ELSE /\ stdout' = print_text_report(result, summary)
               /\ trace' = Append(trace, "print_text_report")
               /\ IF print_text_report(result, summary).raised
                  THEN Exit(1)
                  ELSE pc' = "exit" /\ UNCHANGED exit_code
    /\ UNCHANGED <<audit, skip_update, netOps, stderr, absent, known_overrides,
                   messages, result>>

\* lines 759-761: the missing count is printed to stderr; main() returns
JavaExit ==
    /\ audit = "java" /\ pc = "exit"
    /\ UNCHANGED notJava
    /\ stderr' = IF result.missing > 0
                 THEN Append(stderr, Notice("missing checks found"))
                 ELSE stderr
    /\ Exit(0)
    /\ UNCHANGED <<audit, skip_update, netOps, stdout, trace, absent,
                   known_overrides, messages, result>>

JavaNext ==
    \/ JavaEnsureEpubcheck
    \/ JavaParseMessageIds
    \/ JavaParseSeverities
    \/ JavaParseMessageTexts
    \/ JavaFindJavaEmitters
    \/ JavaFindGoImplementations
    \/ JavaFindBddCoverage
    \/ JavaApplyOverrides
    \/ JavaGenerateReport
    \/ JavaPrintReport
    \/ JavaExit

-----------------------------------------------------------------------------
(* Character sequences: the strings whose characters the scripts inspect   *)
(* (prefixes, substrings, separators) are sequences of one-character       *)
(* strings.                                                                *)

\* s.startswith(prefix)
StartsWith(s, prefix) ==
    Len(prefix) <= Len(s) /\ SubSeq(s, 1, Len(prefix)) = prefix

\* s.endswith(suffix)
EndsWith(s, suffix) ==
    Len(suffix) <= Len(s) /\ SubSeq(s, Len(s) - Len(suffix) + 1, Len(s)) = suffix

\* needle in s
Contains(s, needle) ==
    \E i \in 1..(Len(s) - Len(needle) + 1) :
        SubSeq(s, i, i + Len(needle) - 1) = needle

\* s.replace(ch, "")
Remove(s, ch) == LET Keep(c) == c # ch IN SelectSeq(s, Keep)


-----------------------------------------------------------------------------
(* schematron-audit.py: data model and extraction *)

\* CORE_SCHEMAS, lines 66-77
AllCoreSchemas ==
    <<"package-30.sch", "epub-xhtml-30.sch", "epub-nav-30.sch",
      "media-overlay-30.sch", "ocf-encryption-30.sch", "ocf-metadata-30.sch",
      "collection-do-30.sch", "collection-manifest-30.sch",
      "multiple-renditions/container.sch", "mod/id-unique.sch">>

\* the files of CORE_SCHEMAS a run visits
CORE_SCHEMAS == SubSeq(AllCoreSchemas, 1, NumSchemas)

\* SchematronCheck, lines 247-257
SchematronCheck(file, pattern_id, context, check_type, test_xpath, message) ==
    [file                 |-> file,
     pattern_id           |-> pattern_id,
     context              |-> context,
     check_type           |-> check_type,
     test_xpath           |-> test_xpath,
     message              |-> message,
     is_abstract_instance |-> FALSE,
     abstract_pattern     |-> "",
     params               |-> EmptyMap]

\* msg[:n] of a message [text, length]
Truncate(msg, n) == [msg EXCEPT !.length = Min(@, n)]

\* lines 327-331: the abstract patterns collected from one file (the dict
\* `abstracts`, which no later line reads)
abstracts(doc) ==
    {doc.patterns[i].id : i \in {j \in DOMAIN doc.patterns : doc.patterns[j].abstract}}

\* lines 343-358: the check of a pattern that has an is-a attribute
InstanceCheck(fname, pat) ==
    [SchematronCheck(fname, pat.id, "(abstract instance)", "instance", "",
                     [text |-> "Instance of", length |-> 0])
        EXCEPT !.is_abstract_instance = TRUE,
               !.abstract_pattern     = pat.is_a,
               !.params               = pat.params]

\* lines 360-381: the checks of one rule, its asserts before its reports
RuleChecks(fname, pat_id, rule) ==
    LET IsAssert(el) == el.kind = "assert"
        IsReport(el) == el.kind = "report"
        Check(el) == SchematronCheck(fname, pat_id, rule.context, el.kind,
                                     el.test, Truncate(el.message, 200))
        asserts == SelectSeq(rule.children, IsAssert)
        reports == SelectSeq(rule.children, IsReport)
    IN  [i \in DOMAIN asserts |-> Check(asserts[i])]
            \o [i \in DOMAIN reports |-> Check(reports[i])]

RECURSIVE RulesChecks(_, _, _)
RulesChecks(fname, pat_id, rules) ==
    IF rules = <<>> THEN <<>>
    ELSE RuleChecks(fname, pat_id, Head(rules))
            \o RulesChecks(fname, pat_id, Tail(rules))

\* an extraction that also reads the rules nested inside an instance
RECURSIVE PatternsChecks_instance_rules(_, _)
PatternsChecks_instance_rules(fname, patterns) ==
    IF patterns = <<>> THEN <<>>
    ELSE LET pat == Head(patterns)
         IN  (IF pat.abstract THEN <<>>
              ELSE IF pat.is_a # ""
              THEN <<InstanceCheck(fname, pat)>>
                      \o RulesChecks(fname, pat.id, pat.rules)
              ELSE RulesChecks(fname, pat.id, pat.rules))
             \o PatternsChecks_instance_rules(fname, Tail(patterns))

\* lines 334-381: the patterns of one file in document order
RECURSIVE PatternsChecks(_, _)
PatternsChecks(fname, patterns) ==
    IF patterns = <<>> THEN <<>>
    ELSE LET pat == Head(patterns)
         IN  (IF pat.abstract THEN <<>>
              ELSE IF pat.is_a # "" THEN <<InstanceCheck(fname, pat)>>
              ELSE RulesChecks(fname, pat.id, pat.rules))
             \o PatternsChecks(fname, Tail(patterns))

\* parse_schematron, lines 314-383: `files` maps each file name to a record
\* [state, patterns]; state is "absent", "malformed" (ET.parse raises
\* ParseError) or "ok"
RECURSIVE parse_schematron(_, _)
parse_schematron(files, names) ==
    IF names = <<>> THEN [raised |-> FALSE, checks |-> <<>>, warnings |-> <<>>]
    ELSE LET fname == Head(names)
             doc   == files[fname]
             rest  == parse_schematron(files, Tail(names))
         IN  IF doc.state = "absent"
             THEN [rest EXCEPT !.warnings = <<fname>> \o @]
             ELSE IF doc.state = "malformed"
             THEN [raised |-> TRUE, checks |-> <<>>, warnings |-> <<>>]
             ELSE [rest EXCEPT !.checks = PatternsChecks(fname, doc.patterns) \o @]

\* an audit that counts a pattern registered as wontfix in no bucket
RECURSIVE AuditChecks_wontfix_uncounted(_, _, _, _)
AuditChecks_wontfix_uncounted(res, seen_patterns, cs, known) ==
    IF cs = <<>> THEN res
    ELSE LET c   == Head(cs)
             pid == c.pattern_id
             r1  == IF pid \notin seen_patterns
                    THEN [res EXCEPT !.total_patterns = @ + 1] ELSE res
             r2  == [r1 EXCEPT !.total_checks = @ + 1]
             r3  == IF pid \notin DOMAIN known
                    THEN [r2 EXCEPT !.missing = @ + 1,
                                    !.missing_checks = Append(@, c)]
                    ELSE IF known[pid].status = "partial"
                    THEN [r2 EXCEPT !.partial = @ + 1,
                                    !.partial_checks = Append(@, c)]
                    ELSE IF known[pid].status = "wontfix" THEN r2
                    ELSE [r2 EXCEPT !.implemented = @ + 1]
         IN  AuditChecks_wontfix_uncounted(r3, seen_patterns \cup {pid}, Tail(cs), known)

\* audit, lines 390-415
RECURSIVE AuditChecks(_, _, _, _)
AuditChecks(res, seen_patterns, cs, known) ==
    IF cs = <<>> THEN res
    ELSE LET c   == Head(cs)
             pid == c.pattern_id
             r1  == IF pid \notin seen_patterns
                    THEN [res EXCEPT !.total_patterns = @ + 1] ELSE res
             r2  == [r1 EXCEPT !.total_checks = @ + 1]
             r3  == IF pid \notin DOMAIN known
                    THEN [r2 EXCEPT !.missing = @ + 1,
                                    !.missing_checks = Append(@, c)]
                    ELSE IF known[pid].status = "partial"
                    THEN [r2 EXCEPT !.partial = @ + 1,
                                    !.partial_checks = Append(@, c)]
                    ELSE [r2 EXCEPT !.implemented = @ + 1]
         IN  AuditChecks(r3, seen_patterns \cup {pid}, Tail(cs), known)

sch_audit(cs, known) ==
    AuditChecks([kind           |-> "result",
                 total_patterns |-> 0,
                 total_checks   |-> 0,
                 implemented    |-> 0,
                 partial        |-> 0,
                 missing        |-> 0,
                 missing_checks |-> <<>>,
                 partial_checks |-> <<>>],
                {}, cs, known)

-----------------------------------------------------------------------------
(* schematron-audit.py: fixture generation *)

\* params.get(name, default)
Param(params, name, default) ==
    IF name \in DOMAIN params THEN params[name] ELSE default

\* _strip_ns, lines 433-438
RECURSIVE StripPrefixes(_, _)
StripPrefixes(name, prefixes) ==
    IF prefixes = <<>> THEN name
    ELSE IF StartsWith(name, Head(prefixes))
    THEN SubSeq(name, Len(Head(prefixes)) + 1, Len(name))
    ELSE StripPrefixes(name, Tail(prefixes))

strip_ns(name) ==
    StripPrefixes(name, << <<"h", ":">>, <<"e", "p", "u", "b", ":">>, <<"m", "a", "t", "h", ":">>, <<"s", "v", "g", ":">> >>)

\* the result of a generator: None, or the body with the values it formats
\* into its f-string
None == [none |-> TRUE]
Body(template, args) == [none |-> FALSE, template |-> template, args |-> args]

\* _gen_disallowed_descendants, lines 443-452
gen_disallowed_descendants(params) ==
    LET ancestor   == strip_ns(Param(params, "ancestor", <<>>))
        descendant == strip_ns(Param(params, "descendant", <<>>))
    IN  IF ancestor = <<>> \/ descendant = <<>> THEN None
        ELSE Body("<{ancestor}><{descendant}>{inner}</{descendant}></{ancestor}>",
                  [ancestor |-> ancestor, descendant |-> descendant,
                   inner |-> descendant \notin {<<"a", "u", "d", "i", "o">>, <<"v", "i", "d", "e", "o">>, <<"t", "a", "b", "l", "e">>}])

\* _gen_no_interactive_content, lines 455-464
gen_no_interactive_content(params) ==
    LET ancestor == strip_ns(Param(params, "ancestor", <<>>))
    IN  IF ancestor = <<>> THEN None
        ELSE IF ancestor = <<"a">>
        THEN Body("<a href><button>nested interactive</button></a>", EmptyMap)
        ELSE Body("<{ancestor}><a href>nested link inside {ancestor}</a></{ancestor}>",
                  [ancestor |-> ancestor])

\* _gen_required_ancestor, lines 467-474
gen_required_ancestor(params) ==
    LET descendant == strip_ns(SplitFirst(Param(params, "descendant", <<>>), "["))
        ancestor   == strip_ns(SplitFirst(Param(params, "ancestor", <<>>), "["))
    IN  IF descendant = <<>> \/ ancestor = <<>> THEN None
        ELSE Body("<p><{descendant}>orphaned {descendant} without {ancestor} ancestor</{descendant}></p>",
                  [descendant |-> descendant, ancestor |-> ancestor])

\* a generator that writes the required attribute on the element
gen_required_attr_present(params) ==
    LET elem == strip_ns(Param(params, "elem", <<>>))
        attr == Param(params, "attr", <<>>)
    IN  IF elem = <<>> \/ attr = <<>> THEN None
        ELSE Body("<p><{elem} {attr}=''>has {attr} attribute</{elem}></p>",
                  [elem |-> elem, attr |-> attr])

\* _gen_required_attr, lines 477-484
gen_required_attr(params) ==
    LET elem == strip_ns(Param(params, "elem", <<>>))
        attr == Param(params, "attr", <<>>)
    IN  IF elem = <<>> \/ attr = <<>> THEN None
        ELSE Body("<p><{elem}>missing {attr} attribute</{elem}></p>",
                  [elem |-> elem, attr |-> attr])

\* _gen_idrefs_any, lines 487-502
gen_idrefs_any(params) ==
    LET element == strip_ns(Param(params, "element", <<"*">>))
        attr    == Param(params, "idrefs-attr-name", <<>>)
    IN  IF attr = <<>> THEN None
        ELSE IF element \in {<<"*">>, <<>>}
        THEN Body("<p><{tag} {attr}=nonexistent-id>dangling {attr} reference</{tag}></p>",
                  [tag |-> <<"s", "p", "a", "n">>, attr |-> attr])
        ELSE IF EndsWith(element, <<"*">>) THEN None
        ELSE Body("<p><{tag} {attr}=nonexistent-id>dangling {attr} reference</{tag}></p>",
                  [tag |-> element, attr |-> attr])

\* _gen_idref_any, lines 505-519
gen_idref_any(params) ==
    LET element == Param(params, "element", <<"*">>)
        attr    == Param(params, "idref-attr-name", <<>>)
    IN  IF attr = <<>> THEN None
        ELSE IF Contains(element, <<":">>) THEN None
        ELSE Body("<p><{tag} {attr}=nonexistent-id>dangling {attr} reference</{tag}></p>",
                  [tag |-> IF element \in {<<"*">>, <<>>} THEN <<"s", "p", "a", "n">> ELSE element,
                   attr |-> attr])

\* _gen_idref_named, lines 522-532
gen_idref_named(params) ==
    LET element == strip_ns(Param(params, "element", <<"*">>))
        attr    == Param(params, "idref-attr-name", <<>>)
        target  == strip_ns(Param(params, "target-name", <<>>))
    IN  IF attr = <<>> THEN None
        ELSE Body("<p><{tag} {attr}=wrong-target>must reference a {target} element</{tag}></p>",
                  [tag |-> IF element # <<"*">> THEN element ELSE <<"s", "p", "a", "n">>,
                   attr |-> attr, target |-> target])

\* ABSTRACT_GENERATORS, lines 535-543: the names with a generator, and the
\* generator of a name applied to the parameters
ABSTRACT_GENERATORS ==
    {"disallowed-descendants", "no-interactive-content-descendants",
     "required-ancestor", "required-attr", "idrefs-any", "idref-any",
     "idref-named"}

ApplyGenerator(name, params) ==
    CASE name = "disallowed-descendants"             -> gen_disallowed_descendants(params)
      [] name = "no-interactive-content-descendants" -> gen_no_interactive_content(params)
      [] name = "required-ancestor"                  -> gen_required_ancestor(params)
      [] name = "required-attr"                      -> gen_required_attr(params)
      [] name = "idrefs-any"                         -> gen_idrefs_any(params)
      [] name = "idref-any"                          -> gen_idref_any(params)
      [] name = "idref-named"                        -> gen_idref_named(params)

\* the keys of the hand-authored fixture tables
CONCRETE_FIXTURES ==
    {"idref-aria-activedescendant", "idref-label-for", "idrefs-headers",
     "map.name", "select-multiple", "track", "ssml-ph", "link-sizes",
     "meta-charset", "md-media", "idref-mathml-xref",
     "idref-mathml-indenttarget", "idref-trigger-observer",
     "idref-trigger-ref"}

CUSTOM_TEMPLATES == {"link-sizes", "meta-charset"}

OPF_FIXTURES == {"do.collection", "manifest.collection"}

OCF_METADATA_FIXTURES ==
    {"ocf.uid", "ocf.dcterms.modified", "ocf.dcterms.modified.syntax",
     "ocf.refines.relative", "ocf.meta.source-of", "ocf.link.record",
     "ocf.meta.belongs-to-collection", "ocf.meta.collection-type",
     "ocf.rendition.globals"}

CONTAINER_FIXTURES ==
    {"selection.accessModes", "selection.mandatingOneSelectionAttribute",
     "mapping.atMostOne", "mapping.mediaType"}

\* a file written below gaps_dir
File(kind, rule, dir, name, ext, content) ==
    [kind |-> kind, rule |-> rule, dir |-> dir, name |-> name, ext |-> ext,
     content |-> content]

\* a generator step after which an instance is never looked up in the
\* hand-authored tables
Fixture_instances_generator_only(check) ==
    LET pid == check.pattern_id
        Xhtml(template, body) ==
            File("fixture", pid, "xhtml", <<"sch-", pid, "-error">>, ".xhtml",
                 [template |-> template, pattern_id |-> pid, body |-> body])
    IN  IF check.is_abstract_instance
        THEN (IF check.abstract_pattern \in ABSTRACT_GENERATORS
                    /\ ~ApplyGenerator(check.abstract_pattern, check.params).none
              THEN Xhtml("XHTML_TEMPLATE",
                         ApplyGenerator(check.abstract_pattern, check.params))
              ELSE None)
        ELSE IF pid \in CUSTOM_TEMPLATES
        THEN Xhtml("CUSTOM_TEMPLATES", Body(pid, EmptyMap))
        ELSE IF pid \in CONCRETE_FIXTURES
        THEN Xhtml("XHTML_TEMPLATE", Body(pid, EmptyMap))
        ELSE None

\* generate_test_fixtures, lines 835-882: the fixture of one check, or None
Fixture(check) ==
    LET pid == check.pattern_id
        generated ==
            IF check.is_abstract_instance
                  /\ check.abstract_pattern \in ABSTRACT_GENERATORS
            THEN ApplyGenerator(check.abstract_pattern, check.params)
            ELSE None
        Xhtml(template, body) ==
            File("fixture", pid, "xhtml", <<"sch-", pid, "-error">>, ".xhtml",
                 [template |-> template, pattern_id |-> pid, body |-> body])
    IN  IF ~generated.none THEN Xhtml("XHTML_TEMPLATE", generated)
        ELSE IF pid \in CUSTOM_TEMPLATES
        THEN Xhtml("CUSTOM_TEMPLATES", Body(pid, EmptyMap))
        ELSE IF pid \in CONCRETE_FIXTURES
        THEN Xhtml("XHTML_TEMPLATE", Body(pid, EmptyMap))
        ELSE IF pid \in OPF_FIXTURES
        THEN File("fixture", pid, "opf", <<"sch-", pid, "-error">>, ".opf",
                  [template |-> "OPF_TEMPLATE", pattern_id |-> pid,
                   body |-> Body(pid, EmptyMap)])
        ELSE IF pid \in OCF_METADATA_FIXTURES
        THEN File("fixture", pid, "ocf", <<"sch-", pid, "-error">>, ".xml",
                  [template |-> "OCF_METADATA_TEMPLATE", pattern_id |-> pid,
                   body |-> Body(pid, EmptyMap)])
        ELSE IF pid \in CONTAINER_FIXTURES
        THEN File("fixture", pid, "ocf", <<"sch-", pid, "-error">>, ".xml",
                  [template |-> "CONTAINER_TEMPLATE", pattern_id |-> pid,
                   body |-> Body(pid, EmptyMap)])
        ELSE None

\* generate_test_fixtures, lines 810-886
RECURSIVE GenerateFixtures(_, _)
GenerateFixtures(missing, seen_patterns) ==
    IF missing = <<>> THEN <<>>
    ELSE LET check == Head(missing)
             pid   == check.pattern_id
             rest  == GenerateFixtures(Tail(missing), seen_patterns \cup {pid})
         IN  IF pid \in seen_patterns THEN rest
             ELSE IF "none" \in DOMAIN Fixture(check) THEN rest
             ELSE <<Fixture(check)>> \o rest

sch_generate_test_fixtures(missing) == GenerateFixtures(missing, {})

-----------------------------------------------------------------------------
(* schematron-audit.py: reports and scenario skeletons *)

\* sorted(CORE_SCHEMAS): the order of sorted(by_file.items())
SortedSchemas ==
    <<"collection-do-30.sch", "collection-manifest-30.sch", "epub-nav-30.sch",
      "epub-xhtml-30.sch", "media-overlay-30.sch", "mod/id-unique.sch",
      "multiple-renditions/container.sch", "ocf-encryption-30.sch",
      "ocf-metadata-30.sch", "package-30.sch">>

\* the items whose key occurs for the first time, in order (the `seen` sets
\* of the de-duplicating loops); keys[i] is the key of items[i]
Dedup(items, keys) ==
    LET tagged == [i \in DOMAIN items |-> [i |-> i, item |-> items[i]]]
        First(t) == \A j \in 1..(t.i - 1) : keys[j] # keys[t.i]
        kept == SelectSeq(tagged, First)
    IN  [k \in DOMAIN kept |-> kept[k].item]

PatternIds(cs) == [i \in DOMAIN cs |-> cs[i].pattern_id]

\* by_file grouped and sorted by file name: the checks of each file that has
\* some, in the order of sorted(by_file.items())
RECURSIVE ByFile(_, _)
ByFile(cs, names) ==
    IF names = <<>> THEN <<>>
    ELSE LET InFile(c) == c.file = Head(names)
             file_checks == SelectSeq(cs, InFile)
         IN  (IF file_checks = <<>> THEN <<>>
              ELSE << [file |-> Head(names), checks |-> file_checks] >>)
             \o ByFile(cs, Tail(names))

\* KNOWN_CHECKS.get(pid, {}).get("note", "")
NoteOf(known, pid) ==
    IF pid \in DOMAIN known /\ "note" \in DOMAIN known[pid]
    THEN known[pid].note ELSE ""

\* print_text_report, lines 893-941
sch_print_text_report(res, known) ==
    LET groups == ByFile(res.missing_checks, SortedSchemas)
        Entry(c) == [label   |-> c.pattern_id,
                     is_a    |-> c.abstract_pattern,
                     message |-> Truncate(c.message, 100)]
        Listed(file_checks) ==
            LET shown == Dedup(file_checks,
                               [i \in DOMAIN file_checks |->
                                   <<file_checks[i].pattern_id,
                                     Truncate(file_checks[i].message, 80)>>])
            IN  [i \in DOMAIN shown |-> Entry(shown[i])]
        partial == Dedup(res.partial_checks, PatternIds(res.partial_checks))
    IN  [kind    |-> "text",
         counts  |-> [total_patterns |-> res.total_patterns,
                      total_checks   |-> res.total_checks,
                      implemented    |-> res.implemented,
                      partial        |-> res.partial,
                      missing        |-> res.missing],
         missing |-> [i \in DOMAIN groups |->
                         [file    |-> groups[i].file,
                          entries |-> Listed(groups[i].checks)]],
         partial |-> [i \in DOMAIN partial |->
                         [pattern_id |-> partial[i].pattern_id,
                          note |-> NoteOf(known, partial[i].pattern_id)]]]

\* a JSON report whose lists keep one entry for every check occurrence
sch_print_json_report_lists_all(res, known) ==
    LET missing == res.missing_checks
        partial == res.partial_checks
    IN  [kind    |-> "json",
         summary |-> [total_patterns |-> res.total_patterns,
                      total_checks   |-> res.total_checks,
                      implemented    |-> res.implemented,
                      partial        |-> res.partial,
                      missing        |-> res.missing],
         missing |-> [i \in DOMAIN missing |->
                         [file             |-> missing[i].file,
                          pattern_id       |-> missing[i].pattern_id,
                          abstract_pattern |-> missing[i].abstract_pattern,
                          params           |-> missing[i].params,
                          message          |-> missing[i].message]],
         partial |-> [i \in DOMAIN partial |->
                         [pattern_id |-> partial[i].pattern_id,
                          note |-> NoteOf(known, partial[i].pattern_id)]]]

\* print_json_report, lines 944-989
sch_print_json_report(res, known) ==
    LET missing == Dedup(res.missing_checks, PatternIds(res.missing_checks))
        partial == Dedup(res.partial_checks, PatternIds(res.partial_checks))
    IN  [kind    |-> "json",
         summary |-> [total_patterns |-> res.total_patterns,
                      total_checks   |-> res.total_checks,
                      implemented    |-> res.implemented,
                      partial        |-> res.partial,
                      missing        |-> res.missing],
         missing |-> [i \in DOMAIN missing |->
                         [file             |-> missing[i].file,
                          pattern_id       |-> missing[i].pattern_id,
                          abstract_pattern |-> missing[i].abstract_pattern,
                          params           |-> missing[i].params,
                          message          |-> missing[i].message]],
         partial |-> [i \in DOMAIN partial |->
                         [pattern_id |-> partial[i].pattern_id,
                          note |-> NoteOf(known, partial[i].pattern_id)]]]

\* generate_feature_snippet, lines 1022-1036: the extension of the fixture a
\* skeleton names, by the prefix of the schema file name
SnippetExt(fname) ==
    IF fname \in {"epub-xhtml-30.sch", "epub-nav-30.sch"} THEN ".xhtml"
    ELSE IF fname \in {"collection-do-30.sch", "collection-manifest-30.sch",
                       "package-30.sch"} THEN ".opf"
    ELSE IF fname = "ocf-metadata-30.sch" THEN ".xml"
    ELSE IF fname = "multiple-renditions/container.sch" THEN ".xml"
    ELSE ".xhtml"

\* generate_feature_snippet, lines 996-1046: one skeleton for each missing
\* pattern ID, grouped by schema file
sch_generate_feature_snippet(missing) ==
    LET groups == ByFile(Dedup(missing, PatternIds(missing)), SortedSchemas)
        Skeleton(c) == [pattern_id |-> c.pattern_id,
                        fixture    |-> <<"sch-", c.pattern_id, "-error">>,
                        ext        |-> SnippetExt(c.file),
                        error_code |-> "RSC-005",
                        desc       |-> IF c.is_abstract_instance
                                       THEN [text |-> c.pattern_id, length |-> 0]
                                       ELSE Truncate(c.message, 80)]
        RECURSIVE Flatten(_)
        Flatten(gs) ==
            IF gs = <<>> THEN <<>>
            ELSE [i \in DOMAIN Head(gs).checks |-> Skeleton(Head(gs).checks[i])]
                    \o Flatten(Tail(gs))
    IN  Flatten(groups)

-----------------------------------------------------------------------------
(* schematron-audit.py: the inputs of one run *)

Message(text, length) == [text |-> text, length |-> length]

Child(kind, test, message) == [kind |-> kind, test |-> test, message |-> message]

Rule(context, children) == [context |-> context, children |-> children]

Pattern(id, rules) ==
    [id |-> id, abstract |-> FALSE, is_a |-> "", params |-> EmptyMap,
     rules |-> rules]

AbstractPattern(id, rules) == [Pattern(id, rules) EXCEPT !.abstract = TRUE]

Instance(id, is_a, params) ==
    [Pattern(id, <<>>) EXCEPT !.is_a = is_a, !.params = params]

Absent == [state |-> "absent", patterns |-> <<>>]
Malformed == [state |-> "malformed", patterns |-> <<>>]
Document(patterns) == [state |-> "ok", patterns |-> patterns]

\* package-30.sch: one pattern with two rules and three checks
PackageDocument ==
    Document(<<
        Pattern("opf.uid",
            << Rule("opf:package",
                    << Child("report", "t1", Message("uid report", 40)),
                       Child("assert", "t2", Message("uid assert", 250)) >>),
               Rule("opf:metadata",
                    << Child("assert", "t3", Message("uid assert", 250)) >>) >>)
    >>)

\* epub-xhtml-30.sch: an abstract pattern, an instance of it, an instance whose
\* generator defers to the concrete fixtures, and concrete patterns (one
\* with two assertions)
XhtmlDocument ==
    Document(<<
        AbstractPattern("required-attr",
            << Rule("$elem", << Child("assert", "@$attr", Message("attr", 30)) >>) >>),
        Instance("bdo-dir", "required-attr",
                 [n \in {"elem", "attr"} |-> IF n = "elem" THEN <<"h", ":", "b", "d", "o">> ELSE <<"d", "i", "r">>]),
        Instance("idref-mathml-xref", "idref-any",
                 [n \in {"element", "idref-attr-name"} |->
                     IF n = "element" THEN <<"m", "a", "t", "h", ":", "*">> ELSE <<"x", "r", "e", "f">>]),
        Pattern("link-sizes",
            << Rule("h:link", << Child("assert", "t4", Message("sizes", 90)),
                                 Child("report", "t4b", Message("sizes", 90)) >>) >>),
        Pattern("select-multiple",
            << Rule("h:select", << Child("report", "t5", Message("multiple", 60)) >>) >>)
    >>)

\* epub-xhtml-30.sch: instances whose pattern the file does not define (with
\* a rule nested inside the instance) or whose parameters are incomplete
XhtmlDocumentOdd ==
    Document(<<
        [Instance("ghost-inst", "ghost", EmptyMap)
            EXCEPT !.rules = << Rule("h:p", << Child("assert", "t7", Message("nested", 10)) >>) >>],
        Instance("bdo-dir", "required-attr", [n \in {"elem"} |-> <<"h", ":", "b", "d", "o">>])
    >>)

\* epub-nav-30.sch: a rule without assertions and a rule with one
NavDocument ==
    Document(<<
        Pattern("flat-nav",
            << Rule("h:nav", <<>>),
               Rule("h:ol", << Child("assert", "t6", Message("flat", 20)) >>) >>)
    >>)

\* what a configured file can hold in the snapshot
FileStates(fname) ==
    CASE fname = "package-30.sch"    -> {Absent, PackageDocument}
      [] fname = "epub-xhtml-30.sch" -> {Absent, Malformed, XhtmlDocument,
                                         XhtmlDocumentOdd}
      [] fname = "epub-nav-30.sch"   -> {Absent, NavDocument}
      [] OTHER                       -> {Absent, Document(<<>>)}

\* the snapshots: a state for each configured file
SchSnapshots ==
    {files \in [Range(CORE_SCHEMAS) ->
                   UNION {FileStates(f) : f \in Range(CORE_SCHEMAS)}] :
        \A f \in Range(CORE_SCHEMAS) : files[f] \in FileStates(f)}

\* KNOWN_CHECKS, lines 92-240: pattern ID -> [status, note]; select-multiple
\* is registered as implemented and each pattern of RegisteredIds is
\* unregistered or registered with one of the three statuses
SchStatuses == {"implemented", "partial", "wontfix"}

RegisteredIds == {"opf.uid", "bdo-dir", "idref-mathml-xref", "link-sizes"}

KnownEntry(st) == [status |-> st, note |-> "note"]

SchRegistries ==
    UNION { {[pid \in D \cup {"select-multiple"} |->
                 IF pid \in D THEN KnownEntry(st[pid])
                 ELSE KnownEntry("implemented")] :
               st \in [D -> SchStatuses]} : D \in SUBSET RegisteredIds }

-----------------------------------------------------------------------------
(* schematron-audit.py: main(), lines 1053-1128 *)

\* ensure_epubcheck, lines 275-293: the git operations that use the network
sch_ensure_epubcheck(cache_exists) ==
    IF cache_exists THEN <<"fetch">> ELSE <<"clone">>

\* lines 1078-1093: the repository root and the schema directory
SchLocateSchemas ==
    /\ audit = "schematron" /\ pc = "start"
    /\ trace' = Append(trace, "locate_schemas")
    /\ \E go_mod \in BOOLEAN, cache_exists \in BOOLEAN, clone_ok \in BOOLEAN,
          schema_dir_exists \in BOOLEAN :
          IF ~go_mod
          THEN /\ stderr' = Append(stderr, Error("go.mod"))
               /\ Exit(1)
               /\ UNCHANGED netOps
          ELSE IF skip_update
          THEN /\ UNCHANGED netOps
               /\ IF cache_exists /\ schema_dir_exists
                  THEN pc' = "parse_schematron" /\ UNCHANGED <<stderr, exit_code>>
                  ELSE /\ stderr' = Append(stderr, Error("cached epubcheck"))
                       /\ Exit(1)
          ELSE /\ netOps' = netOps \o sch_ensure_epubcheck(cache_exists)
               /\ IF ~cache_exists /\ ~clone_ok
                  THEN Exit(1) /\ UNCHANGED stderr
                  ELSE IF ~schema_dir_exists
                  THEN /\ stderr' = Append(stderr, Error("schema directory"))
                       /\ Exit(1)
                  ELSE pc' = "parse_schematron" /\ UNCHANGED <<stderr, exit_code>>
    /\ UNCHANGED <<audit, skip_update, stdout, absent, result, known_checks,
                   checks, written>>
    /\ UNCHANGED <<javaVars, rngVars>>

\* line 1098: parse_schematron; an absent file is a warning, a file that is
\* not well-formed ends the process with a traceback
SchParseSchematron ==
    /\ audit = "schematron" /\ pc = "parse_schematron"
    /\ trace' = Append(trace, "parse_schematron")
    /\ \E files \in SchSnapshots :
          LET parsed == parse_schematron(files, CORE_SCHEMAS)
          IN  /\ stderr' = stderr \o
                    [i \in DOMAIN parsed.warnings |-> Warning(parsed.warnings[i])]
              /\ absent' = absent \cup Range(parsed.warnings)
              /\ IF parsed.raised
                 THEN Exit(1) /\ UNCHANGED checks
                 ELSE /\ checks' = parsed.checks
                      /\ pc' = "audit"
                      /\ UNCHANGED exit_code
    /\ UNCHANGED <<audit, skip_update, netOps, stdout, result, known_checks,
                   written>>
    /\ UNCHANGED <<javaVars, rngVars>>

\* line 1102: audit
SchAudit ==
    /\ audit = "schematron" /\ pc = "audit"
    /\ Step("audit", "print_report")
    /\ result' = sch_audit(checks, known_checks)
    /\ UNCHANGED <<audit, skip_update, netOps, stderr, stdout, exit_code, absent,
                   known_checks, checks, written>>
    /\ UNCHANGED <<javaVars, rngVars>>

\* lines 1104-1108: print_json_report or print_text_report
SchPrintReport ==
    /\ audit = "schematron" /\ pc = "print_report"
    /\ \E json \in BOOLEAN :
          IF json
          THEN /\ stdout' = sch_print_json_report(result, known_checks)
               /\ Step("print_json_report", "generate_tests")
          ELSE /\ stdout' = sch_print_text_report(result, known_checks)
               /\ Step("print_text_report", "generate_tests")
    /\ UNCHANGED <<audit, skip_update, netOps, stderr, exit_code, absent, result,
                   known_checks, checks, written>>
    /\ UNCHANGED <<javaVars, rngVars>>

\* lines 1110-1124: with --generate-tests the fixtures and the snippet are
\* written; gaps_dir.relative_to(repo_root) raises ValueError for an
\* --output-dir outside the repository
SchGenerateTests ==
    /\ audit = "schematron" /\ pc = "generate_tests"
    /\ \E generate_tests \in BOOLEAN, output_dir_in_repo \in BOOLEAN :
          IF ~generate_tests
          THEN /\ pc' = "exit"
               /\ UNCHANGED <<trace, written, exit_code>>
          ELSE /\ trace' = Append(trace, "generate_tests")
               /\ IF ~output_dir_in_repo
                  THEN Exit(1) /\ UNCHANGED written
                  ELSE /\ written' =
                             sch_generate_test_fixtures(result.missing_checks)
                             \o << File("snippet", "", "", <<"sch-generated-scenarios">>,
                                        ".feature.txt",
                                        sch_generate_feature_snippet(
                                            result.missing_checks)) >>
                       /\ pc' = "exit"
                       /\ UNCHANGED exit_code
    /\ UNCHANGED <<audit, skip_update, netOps, stderr, stdout, absent, result,
                   known_checks, checks>>
    /\ UNCHANGED <<javaVars, rngVars>>

\* lines 1126-1128: exit status 2 when checks are missing
SchExit ==
    /\ audit = "schematron" /\ pc = "exit"
    /\ Exit(IF result.missing > 0 THEN 2 ELSE 0)
    /\ UNCHANGED <<audit, skip_update, netOps, stderr, stdout, trace, absent,
                   result, known_checks, checks, written>>
    /\ UNCHANGED <<javaVars, rngVars>>

SchNext ==
    \/ SchLocateSchemas
    \/ SchParseSchematron
    \/ SchAudit
    \/ SchPrintReport
    \/ SchGenerateTests
    \/ SchExit

-----------------------------------------------------------------------------
(* relaxng-audit.py: data model and extraction *)

\* HTML5_MODULES + EPUB_MODULES + OTHER_SCHEMAS, lines 72-113
all_files ==
    <<
      "mod/html5/common.rnc", "mod/html5/structural.rnc",
      "mod/html5/sectional.rnc", "mod/html5/block.rnc",
      "mod/html5/phrase.rnc", "mod/html5/embed.rnc", "mod/html5/media.rnc",
      "mod/html5/tables.rnc", "mod/html5/ruby.rnc", "mod/html5/revision.rnc",
      "mod/html5/data.rnc", "mod/html5/web-forms.rnc",
      "mod/html5/web-forms2.rnc", "mod/html5/meta.rnc",
      "mod/html5/applications.rnc", "mod/html5/core-scripting.rnc",
      "mod/html5/microdata.rnc", "mod/html5/rdfa.rnc",
      "mod/html5/web-components.rnc", "mod/html5/html5exclusions.rnc",
      "mod/epub-xhtml-inc.rnc", "mod/epub-xhtml-integration.rnc",
      "mod/epub-xhtml-svg-mathml.rnc", "mod/epub-type-attr.rnc",
      "mod/epub-ssml-attrs.rnc", "mod/epub-switch.rnc",
      "mod/epub-trigger.rnc", "mod/epub-prefix-attr.rnc", "package-30.rnc",
      "epub-nav-30.rnc", "epub-svg-30.rnc", "media-overlay-30.rnc",
      "ocf-container-30.rnc", "ocf-encryption-30.rnc"
    >>

\* the files of the list a run visits: block.rnc, phrase.rnc, ...
GrammarFiles == SubSeq(all_files, 4, 3 + NumGrammars)

\* ElementDef, lines 120-129
ElementDef(name, source_file, content_model, content_category) ==
    [name             |-> name,
     source_file      |-> source_file,
     content_model    |-> content_model,
     content_category |-> content_category,
     content_detail   |-> <<>>,
     is_void          |-> FALSE]

\* ContentRule, lines 132-139
ContentRule(parent, allowed_content, source_file, detail) ==
    [parent          |-> parent,
     allowed_content |-> allowed_content,
     source_file     |-> source_file,
     detail          |-> detail,
     priority        |-> "medium"]

\* s.strip()
RECURSIVE LStrip(_)
LStrip(s) == IF s # <<>> /\ Head(s) = " " THEN LStrip(Tail(s)) ELSE s

RECURSIVE RStrip(_)
RStrip(s) ==
    IF s # <<>> /\ s[Len(s)] = " " THEN RStrip(SubSeq(s, 1, Len(s) - 1)) ELSE s

Strip(s) == RStrip(LStrip(s))

\* d[key] = value on a dict
Put(d, key, value) ==
    [k \in DOMAIN d \cup {key} |-> IF k = key THEN value ELSE d[k]]

\* the names of the elements, in the order of the dict
Names(elems) == [i \in DOMAIN elems |-> elems[i].name]

\* lines 467-488: the element definitions of one file; `elems` is the dict
\* elements in insertion order
RECURSIVE ParseElems(_, _, _)
ParseElems(acc, fname, matches) ==
    IF matches = <<>> THEN acc
    ELSE LET m    == Head(matches)
             body == Strip(m.body)
             content_model ==
                 IF Contains(body, <<"e", "m", "p", "t", "y">>)
                       /\ Strip(Remove(Remove(Strip(body), "("), ")")) = <<"e", "m", "p", "t", "y">>
                 THEN "empty" ELSE "special"
             ed   == ElementDef(m.elem_name, fname, content_model, "unknown")
         IN  ParseElems(
                 [elems |-> IF m.elem_name \in Range(Names(acc.elems))
                            THEN acc.elems ELSE Append(acc.elems, ed),
                  raw   |-> Put(acc.raw, m.pattern_name, body)],
                 fname, Tail(matches))

\* lines 490-494: the inner definitions of one file
RECURSIVE ParseInners(_, _)
ParseInners(raw, matches) ==
    IF matches = <<>> THEN raw
    ELSE ParseInners(Put(raw, Head(matches).pattern_name,
                         Strip(Head(matches).content)),
                     Tail(matches))

\* lines 456-502: the loop over file_list; an absent file is skipped
RECURSIVE ParseFiles(_, _, _)
ParseFiles(acc, files, names) ==
    IF names = <<>> THEN acc
    ELSE LET fname == Head(names)
             doc   == files[fname]
             pe    == ParseElems([elems |-> acc.elems, raw |-> acc.raw],
                                 fname, doc.elems)
         IN  IF doc.state = "absent" THEN ParseFiles(acc, files, Tail(names))
             ELSE ParseFiles(
                      [elems     |-> pe.elems,
                       raw       |-> ParseInners(pe.raw, doc.inners),
                       flow      |-> acc.flow \cup Range(doc.flow),
                       phrasing  |-> acc.phrasing \cup Range(doc.phrasing),
                       metadata  |-> acc.metadata \cup Range(doc.metadata)],
                      files, Tail(names))

\* lines 505-510: pattern_to_elem after the first loop; the last element, in
\* dict order, whose name matches the pattern name
PatternToElemFirst(elems, raw) ==
    LET Matches(ename, pname) ==
            \/ StartsWith(pname, Remove(Replace(ename, ":", "_"), "-"))
            \/ SplitFirst(pname, ".") = ename
        Mapped == {pname \in DOMAIN raw :
                      \E i \in DOMAIN elems : Matches(elems[i].name, pname)}
    IN  [pname \in Mapped |->
            LET last == CHOOSE i \in DOMAIN elems :
                           /\ Matches(elems[i].name, pname)
                           /\ \A j \in DOMAIN elems :
                                 Matches(elems[j].name, pname) => j <= i
            IN  elems[last].name]

\* lines 512-520: the category pattern names are mapped again, to the first
\* element whose name is the base of the pattern name
PatternToElem(elems, raw, category_patterns) ==
    LET first == PatternToElemFirst(elems, raw)
        Matches(ename, pname) ==
            LET base == SplitFirst(pname, ".")
            IN  ename = base \/ ename = Replace(base, "_", ":")
        Again == {pname \in category_patterns :
                     \E i \in DOMAIN elems : Matches(elems[i].name, pname)}
    IN  [pname \in DOMAIN first \cup Again |->
            IF pname \in Again
            THEN LET i == CHOOSE i \in DOMAIN elems :
                             /\ Matches(elems[i].name, pname)
                             /\ \A j \in DOMAIN elems :
                                   Matches(elems[j].name, pname) => i <= j
                 IN  elems[i].name
            ELSE first[pname]]

\* lines 523-539: one of the three loops that set content_category; `pnames`
\* is a set, iterated in some order
RECURSIVE SetCategories(_, _, _, _)
SetCategories(elems, p2e, pnames, category) ==
    IF pnames = {} THEN elems
    ELSE LET pname == CHOOSE p \in pnames : TRUE
             ename == IF pname \in DOMAIN p2e THEN p2e[pname] ELSE <<>>
             Set(e) ==
                 IF e.name # ename \/ ename = <<>> THEN e
                 ELSE IF category = "phrasing" /\ e.content_category = "flow"
                 THEN [e EXCEPT !.content_category = "phrasing+flow"]
                 ELSE [e EXCEPT !.content_category = category]
         IN  SetCategories([i \in DOMAIN elems |-> Set(elems[i])], p2e,
                           pnames \ {pname}, category)

\* lines 543-546: the first of ename + ".inner", ".inner.flow",
\* ".inner.phrasing" that is a key of raw_patterns, as a list of at most one
RECURSIVE InnerKey(_, _, _)
InnerKey(ename, suffixes, raw) ==
    IF suffixes = <<>> THEN <<>>
    ELSE IF ename \o Head(suffixes) \in DOMAIN raw
    THEN <<ename \o Head(suffixes)>>
    ELSE InnerKey(ename, Tail(suffixes), raw)

\* lines 547-557: the content model an inner pattern gives
ResolveWith(edef, inner) ==
    [(IF Contains(inner, <<"c", "o", "m", "m", "o", "n", ".", "i", "n", "n", "e", "r", ".", "p", "h", "r", "a", "s", "i", "n", "g">>)
         /\ ~Contains(inner, <<"c", "o", "m", "m", "o", "n", ".", "i", "n", "n", "e", "r", ".", "f", "l", "o", "w">>)
      THEN [edef EXCEPT !.content_model = "phrasing"]
      ELSE IF Contains(inner, <<"c", "o", "m", "m", "o", "n", ".", "i", "n", "n", "e", "r", ".", "f", "l", "o", "w">>)
      THEN [edef EXCEPT !.content_model = "flow"]
      ELSE IF Contains(inner, <<"c", "o", "m", "m", "o", "n", ".", "i", "n", "n", "e", "r", ".", "t", "r", "a", "n", "s", "p", "a", "r", "e", "n", "t", ".", "f", "l", "o", "w">>)
      THEN [edef EXCEPT !.content_model = "transparent"]
      ELSE IF Contains(inner, <<"e", "m", "p", "t", "y">>)
      THEN [edef EXCEPT !.content_model = "empty", !.is_void = TRUE]
      ELSE edef)
        EXCEPT !.content_detail = Strip(inner)]

\* lines 541-558: the content model of one element from its inner pattern
ResolveKey(edef, key, raw) ==
    IF key = <<>> THEN edef ELSE ResolveWith(edef, raw[key[1]])

ResolveContentModel(edef, raw) ==
    ResolveKey(edef,
               InnerKey(edef.name,
                        << <<".", "i", "n", "n", "e", "r">>,
                           <<".", "i", "n", "n", "e", "r", ".", "f", "l", "o", "w">>,
                           <<".", "i", "n", "n", "e", "r", ".", "p", "h", "r", "a", "s", "i", "n", "g">> >>,
                        raw),
               raw)

\* lines 522-539: the three loops that set content_category
Categorise(parsed, p2e) ==
    SetCategories(
        SetCategories(
            SetCategories(parsed.elems, p2e, parsed.flow, "flow"),
            p2e, parsed.phrasing, "phrasing"),
        p2e, parsed.metadata, "metadata")

\* lines 560-568: a content rule for every element with one of the four
\* content models
ContentRuleOf(e) ==
    ContentRule(e.name, e.content_model, e.source_file, e.content_detail)

ContentRules(elems) ==
    [name \in {elems[i].name : i \in {k \in DOMAIN elems :
                   elems[k].content_model \in
                       {"phrasing", "flow", "empty", "transparent"}}} |->
        ContentRuleOf(elems[CHOOSE i \in DOMAIN elems : elems[i].name = name])]

\* lines 541-570: content models, content rules and the returned triple
Resolve(elems, raw) ==
    [i \in DOMAIN elems |-> ResolveContentModel(elems[i], raw)]

Returned(elems, raw) ==
    [elements |-> elems, content_rules |-> ContentRules(elems),
     raw_patterns |-> raw]

\* lines 504-570: what follows the loop over the files
AfterFiles(parsed) ==
    Returned(
        Resolve(
            Categorise(parsed,
                       PatternToElem(parsed.elems, parsed.raw,
                                     parsed.flow \cup parsed.phrasing
                                         \cup parsed.metadata)),
            parsed.raw),
        parsed.raw)

\* parse_rnc_files, lines 418-570: `files` maps each file name to a record
\* [state, elems, inners, flow, phrasing, metadata] of the matches of the
\* five patterns in the file
parse_rnc_files(files, file_list) ==
    AfterFiles(ParseFiles([elems |-> <<>>, raw |-> EmptyMap, flow |-> {},
                           phrasing |-> {}, metadata |-> {}],
                          files, file_list))

-----------------------------------------------------------------------------
(* relaxng-audit.py: knowledge base, registry and gap analysis *)

\* sorted(PHRASING_CONTENT_PARENTS), lines 581-590 and 654
SortedPhrasingParents ==
    <<
      <<"a">>, <<"a", "b", "b", "r">>, <<"b">>, <<"b", "d", "i">>,
      <<"b", "d", "o">>, <<"c", "i", "t", "e">>, <<"c", "o", "d", "e">>,
      <<"d", "a", "t", "a">>, <<"d", "f", "n">>, <<"d", "t">>, <<"e", "m">>,
      <<"f", "i", "g", "c", "a", "p", "t", "i", "o", "n">>, <<"h", "1">>,
      <<"h", "2">>, <<"h", "3">>, <<"h", "4">>, <<"h", "5">>, <<"h", "6">>,
      <<"i">>, <<"k", "b", "d">>, <<"l", "a", "b", "e", "l">>,
      <<"l", "e", "g", "e", "n", "d">>, <<"m", "a", "r", "k">>,
      <<"o", "u", "t", "p", "u", "t">>, <<"p">>, <<"p", "r", "e">>, <<"q">>,
      <<"s">>, <<"s", "a", "m", "p">>, <<"s", "m", "a", "l", "l">>,
      <<"s", "p", "a", "n">>, <<"s", "t", "r", "o", "n", "g">>,
      <<"s", "u", "b">>, <<"s", "u", "m", "m", "a", "r", "y">>,
      <<"s", "u", "p">>, <<"t", "i", "m", "e">>, <<"u">>, <<"v", "a", "r">>
    >>

\* sorted(VOID_ELEMENTS), lines 614-617 and 683
SortedVoidElements ==
    <<
      <<"a", "r", "e", "a">>, <<"b", "a", "s", "e">>, <<"b", "r">>,
      <<"c", "o", "l">>, <<"e", "m", "b", "e", "d">>, <<"h", "r">>,
      <<"i", "m", "g">>, <<"i", "n", "p", "u", "t">>, <<"l", "i", "n", "k">>,
      <<"m", "e", "t", "a">>, <<"p", "a", "r", "a", "m">>,
      <<"s", "o", "u", "r", "c", "e">>, <<"t", "r", "a", "c", "k">>,
      <<"w", "b", "r">>
    >>

\* sorted(RESTRICTED_CHILDREN.items()) with sorted(allowed), lines 620-636 and
\* 697
SortedRestrictedChildren ==
    <<
      [parent |-> <<"c", "o", "l", "g", "r", "o", "u", "p">>,
       allowed |-> << <<"c", "o", "l">> >>],
      [parent |-> <<"d", "a", "t", "a", "l", "i", "s", "t">>,
       allowed |-> << <<"o", "p", "t", "i", "o", "n">> >>],
      [parent |-> <<"d", "l">>,
       allowed |-> << <<"d", "d">>, <<"d", "i", "v">>, <<"d", "t">> >>],
      [parent |-> <<"h", "g", "r", "o", "u", "p">>,
       allowed |-> << <<"h", "1">>, <<"h", "2">>, <<"h", "3">>, <<"h", "4">>, <<"h", "5">>, <<"h", "6">>, <<"p">> >>],
      [parent |-> <<"o", "l">>,
       allowed |-> << <<"l", "i">> >>],
      [parent |-> <<"o", "p", "t", "g", "r", "o", "u", "p">>,
       allowed |-> << <<"o", "p", "t", "i", "o", "n">> >>],
      [parent |-> <<"p", "i", "c", "t", "u", "r", "e">>,
       allowed |-> << <<"i", "m", "g">>, <<"s", "o", "u", "r", "c", "e">> >>],
      [parent |-> <<"r", "u", "b", "y">>,
       allowed |-> << <<"r", "b">>, <<"r", "p">>, <<"r", "t">>, <<"r", "t", "c">> >>],
      [parent |-> <<"s", "e", "l", "e", "c", "t">>,
       allowed |-> << <<"o", "p", "t", "g", "r", "o", "u", "p">>, <<"o", "p", "t", "i", "o", "n">> >>],
      [parent |-> <<"t", "a", "b", "l", "e">>,
       allowed |-> << <<"c", "a", "p", "t", "i", "o", "n">>, <<"c", "o", "l", "g", "r", "o", "u", "p">>, <<"t", "b", "o", "d", "y">>, <<"t", "f", "o", "o", "t">>, <<"t", "h", "e", "a", "d">>, <<"t", "r">> >>],
      [parent |-> <<"t", "b", "o", "d", "y">>,
       allowed |-> << <<"t", "r">> >>],
      [parent |-> <<"t", "f", "o", "o", "t">>,
       allowed |-> << <<"t", "r">> >>],
      [parent |-> <<"t", "h", "e", "a", "d">>,
       allowed |-> << <<"t", "r">> >>],
      [parent |-> <<"t", "r">>,
       allowed |-> << <<"t", "d">>, <<"t", "h">> >>],
      [parent |-> <<"u", "l">>,
       allowed |-> << <<"l", "i">> >>]
    >>

\* KNOWN_CHECKS, lines 161-411, in the order of the dict: key, status and
\* the Go function named by the entry
KNOWN_CHECKS ==
    <<
      \* "valid-html-elements"
      [key |-> <<"v", "a", "l", "i", "d", "-", "h", "t", "m", "l", "-", "e", "l", "e", "m", "e", "n", "t", "s">>,
       status |-> "implemented", go |-> "content.go:checkInvalidHTMLElements"],
      \* "obsolete-elements"
      [key |-> <<"o", "b", "s", "o", "l", "e", "t", "e", "-", "e", "l", "e", "m", "e", "n", "t", "s">>,
       status |-> "implemented", go |-> "content.go:checkNoObsoleteElements"],
      \* "obsolete-attributes"
      [key |-> <<"o", "b", "s", "o", "l", "e", "t", "e", "-", "a", "t", "t", "r", "i", "b", "u", "t", "e", "s">>,
       status |-> "implemented", go |-> "content.go:checkObsoleteAttrs"],
      \* "p-phrasing-only"
      [key |-> <<"p", "-", "p", "h", "r", "a", "s", "i", "n", "g", "-", "o", "n", "l", "y">>,
       status |-> "implemented", go |-> "content.go:checkBlockInPhrasing"],
      \* "h1-h6-phrasing-only"
      [key |-> <<"h", "1", "-", "h", "6", "-", "p", "h", "r", "a", "s", "i", "n", "g", "-", "o", "n", "l", "y">>,
       status |-> "implemented", go |-> "content.go:checkBlockInPhrasing"],
      \* "span-phrasing-only"
      [key |-> <<"s", "p", "a", "n", "-", "p", "h", "r", "a", "s", "i", "n", "g", "-", "o", "n", "l", "y">>,
       status |-> "implemented", go |-> "content.go:checkBlockInPhrasing"],
      \* "pre-phrasing-only"
      [key |-> <<"p", "r", "e", "-", "p", "h", "r", "a", "s", "i", "n", "g", "-", "o", "n", "l", "y">>,
       status |-> "implemented", go |-> "content.go:checkBlockInPhrasing"],
      \* "block-in-phrasing"
      [key |-> <<"b", "l", "o", "c", "k", "-", "i", "n", "-", "p", "h", "r", "a", "s", "i", "n", "g">>,
       status |-> "implemented", go |-> "content.go:checkBlockInPhrasing"],
      \* "nested-dfn"
      [key |-> <<"n", "e", "s", "t", "e", "d", "-", "d", "f", "n">>,
       status |-> "implemented", go |-> "content.go:checkNestedDFN"],
      \* "nested-a"
      [key |-> <<"n", "e", "s", "t", "e", "d", "-", "a">>,
       status |-> "implemented", go |-> "content.go:checkNestedAnchors"],
      \* "nested-time"
      [key |-> <<"n", "e", "s", "t", "e", "d", "-", "t", "i", "m", "e">>,
       status |-> "implemented", go |-> "content.go:checkNestedTime"],
      \* "void-elements-no-children"
      [key |-> <<"v", "o", "i", "d", "-", "e", "l", "e", "m", "e", "n", "t", "s", "-", "n", "o", "-", "c", "h", "i", "l", "d", "r", "e", "n">>,
       status |-> "implemented", go |-> "content.go:checkVoidElementChildren"],
      \* "html-root"
      [key |-> <<"h", "t", "m", "l", "-", "r", "o", "o", "t">>,
       status |-> "implemented", go |-> "content.go:checkHTMLRootElement"],
      \* "single-body"
      [key |-> <<"s", "i", "n", "g", "l", "e", "-", "b", "o", "d", "y">>,
       status |-> "implemented", go |-> "content.go:checkSingleBody"],
      \* "head-required"
      [key |-> <<"h", "e", "a", "d", "-", "r", "e", "q", "u", "i", "r", "e", "d">>,
       status |-> "implemented", go |-> "content.go:checkContentHasHead"],
      \* "title-required"
      [key |-> <<"t", "i", "t", "l", "e", "-", "r", "e", "q", "u", "i", "r", "e", "d">>,
       status |-> "implemented", go |-> "content.go:checkContentHasTitle"],
      \* "table-structure"
      [key |-> <<"t", "a", "b", "l", "e", "-", "s", "t", "r", "u", "c", "t", "u", "r", "e">>,
       status |-> "implemented", go |-> "content.go:checkTableContentModel"],
      \* "tr-children"
      [key |-> <<"t", "r", "-", "c", "h", "i", "l", "d", "r", "e", "n">>,
       status |-> "implemented", go |-> "content.go:checkRestrictedChildren"],
      \* "ul-ol-children"
      [key |-> <<"u", "l", "-", "o", "l", "-", "c", "h", "i", "l", "d", "r", "e", "n">>,
       status |-> "implemented", go |-> "content.go:checkRestrictedChildren"],
      \* "dl-structure"
      [key |-> <<"d", "l", "-", "s", "t", "r", "u", "c", "t", "u", "r", "e">>,
       status |-> "implemented", go |-> "content.go:checkRestrictedChildren"],
      \* "select-children"
      [key |-> <<"s", "e", "l", "e", "c", "t", "-", "c", "h", "i", "l", "d", "r", "e", "n">>,
       status |-> "implemented", go |-> "content.go:checkRestrictedChildren"],
      \* "video-audio-source-or-src"
      [key |-> <<"v", "i", "d", "e", "o", "-", "a", "u", "d", "i", "o", "-", "s", "o", "u", "r", "c", "e", "-", "o", "r", "-", "s", "r", "c">>,
       status |-> "partial", go |-> "content.go:checkForeignResourceFallbacks"],
      \* "picture-img-required"
      [key |-> <<"p", "i", "c", "t", "u", "r", "e", "-", "i", "m", "g", "-", "r", "e", "q", "u", "i", "r", "e", "d">>,
       status |-> "implemented", go |-> "content.go:checkPictureContentModel"],
      \* "figure-figcaption-position"
      [key |-> <<"f", "i", "g", "u", "r", "e", "-", "f", "i", "g", "c", "a", "p", "t", "i", "o", "n", "-", "p", "o", "s", "i", "t", "i", "o", "n">>,
       status |-> "implemented", go |-> "content.go:checkFigcaptionPosition"],
      \* "svg-content-model"
      [key |-> <<"s", "v", "g", "-", "c", "o", "n", "t", "e", "n", "t", "-", "m", "o", "d", "e", "l">>,
       status |-> "partial", go |-> "content.go"],
      \* "mathml-content-model"
      [key |-> <<"m", "a", "t", "h", "m", "l", "-", "c", "o", "n", "t", "e", "n", "t", "-", "m", "o", "d", "e", "l">>,
       status |-> "partial", go |-> "content.go:checkMathMLContentOnly"],
      \* "nav-content-model"
      [key |-> <<"n", "a", "v", "-", "c", "o", "n", "t", "e", "n", "t", "-", "m", "o", "d", "e", "l">>,
       status |-> "implemented", go |-> "content.go:checkNavContentModel"],
      \* "opf-schema"
      [key |-> <<"o", "p", "f", "-", "s", "c", "h", "e", "m", "a">>,
       status |-> "implemented", go |-> "opf.go"],
      \* "epub-switch-content"
      [key |-> <<"e", "p", "u", "b", "-", "s", "w", "i", "t", "c", "h", "-", "c", "o", "n", "t", "e", "n", "t">>,
       status |-> "implemented", go |-> "content.go:checkEpubSwitchTrigger"],
      \* "epub-type-attr"
      [key |-> <<"e", "p", "u", "b", "-", "t", "y", "p", "e", "-", "a", "t", "t", "r">>,
       status |-> "implemented", go |-> "content.go:checkEpubTypeAttributes"],
      \* "ssml-attrs"
      [key |-> <<"s", "s", "m", "l", "-", "a", "t", "t", "r", "s">>,
       status |-> "implemented", go |-> "content.go"],
      \* "duplicate-ids"
      [key |-> <<"d", "u", "p", "l", "i", "c", "a", "t", "e", "-", "i", "d", "s">>,
       status |-> "implemented", go |-> "content.go:checkDuplicateIDs"],
      \* "id-references"
      [key |-> <<"i", "d", "-", "r", "e", "f", "e", "r", "e", "n", "c", "e", "s">>,
       status |-> "implemented", go |-> "content.go:checkIDReferences"],
      \* "xhtml-namespace"
      [key |-> <<"x", "h", "t", "m", "l", "-", "n", "a", "m", "e", "s", "p", "a", "c", "e">>,
       status |-> "implemented", go |-> "content.go:checkMissingNamespace"],
      \* "encoding-declaration"
      [key |-> <<"e", "n", "c", "o", "d", "i", "n", "g", "-", "d", "e", "c", "l", "a", "r", "a", "t", "i", "o", "n">>,
       status |-> "implemented", go |-> "content.go:checkEncodingDecl"],
      \* "doctype-html5"
      [key |-> <<"d", "o", "c", "t", "y", "p", "e", "-", "h", "t", "m", "l", "5">>,
       status |-> "implemented", go |-> "content.go:checkDoctypeHTML5"],
      \* "media-overlay-schema"
      [key |-> <<"m", "e", "d", "i", "a", "-", "o", "v", "e", "r", "l", "a", "y", "-", "s", "c", "h", "e", "m", "a">>,
       status |-> "implemented", go |-> "media.go"],
      \* "ocf-container-schema"
      [key |-> <<"o", "c", "f", "-", "c", "o", "n", "t", "a", "i", "n", "e", "r", "-", "s", "c", "h", "e", "m", "a">>,
       status |-> "implemented", go |-> "ocf.go"],
      \* "a-transparent-flow"
      [key |-> <<"a", "-", "t", "r", "a", "n", "s", "p", "a", "r", "e", "n", "t", "-", "f", "l", "o", "w">>,
       status |-> "implemented", go |-> "content.go:checkTransparentContentModel"],
      \* "ins-del-transparent"
      [key |-> <<"i", "n", "s", "-", "d", "e", "l", "-", "t", "r", "a", "n", "s", "p", "a", "r", "e", "n", "t">>,
       status |-> "implemented", go |-> "content.go:checkTransparentContentModel"],
      \* "object-transparent"
      [key |-> <<"o", "b", "j", "e", "c", "t", "-", "t", "r", "a", "n", "s", "p", "a", "r", "e", "n", "t">>,
       status |-> "implemented", go |-> "content.go:checkTransparentContentModel"],
      \* "interactive-in-interactive"
      [key |-> <<"i", "n", "t", "e", "r", "a", "c", "t", "i", "v", "e", "-", "i", "n", "-", "i", "n", "t", "e", "r", "a", "c", "t", "i", "v", "e">>,
       status |-> "implemented", go |-> "content.go:checkInteractiveNesting"],
      \* "img-alt"
      [key |-> <<"i", "m", "g", "-", "a", "l", "t">>,
       status |-> "partial", go |-> "accessibility.go"],
      \* "input-type"
      [key |-> <<"i", "n", "p", "u", "t", "-", "t", "y", "p", "e">>,
       status |-> "missing", go |-> ""]
    >>

BLOCK_IN_INLINE_FIXTURES ==
    <<
      [test_id |-> "p-contains-div", parent |-> <<"p">>],
      [test_id |-> "p-contains-ul", parent |-> <<"p">>],
      [test_id |-> "p-contains-table", parent |-> <<"p">>],
      [test_id |-> "h1-contains-div", parent |-> <<"h", "1">>],
      [test_id |-> "span-contains-div", parent |-> <<"s", "p", "a", "n">>],
      [test_id |-> "span-contains-p", parent |-> <<"s", "p", "a", "n">>],
      [test_id |-> "em-contains-div", parent |-> <<"e", "m">>],
      [test_id |-> "strong-contains-div", parent |-> <<"s", "t", "r", "o", "n", "g">>]
    >>

RESTRICTED_CHILDREN_FIXTURES ==
    <<
      [test_id |-> "ul-contains-div", parent |-> <<"u", "l">>],
      [test_id |-> "ol-contains-p", parent |-> <<"o", "l">>],
      [test_id |-> "tr-contains-div", parent |-> <<"t", "r">>],
      [test_id |-> "select-contains-div", parent |-> <<"s", "e", "l", "e", "c", "t">>],
      [test_id |-> "table-contains-p", parent |-> <<"t", "a", "b", "l", "e">>]
    >>

VOID_ELEMENT_FIXTURES ==
    <<
      [test_id |-> "br-with-content", parent |-> <<"b", "r">>],
      [test_id |-> "hr-with-content", parent |-> <<"h", "r">>],
      [test_id |-> "img-with-content", parent |-> <<"i", "m", "g">>]
    >>

\* KNOWN_CHECKS.get(key): the entry of a key, or NoEntry
NoEntry == [key |-> <<>>, status |-> "", go |-> ""]

Get(known, key) ==
    IF \E i \in DOMAIN known : known[i].key = key
    THEN known[CHOOSE i \in DOMAIN known : known[i].key = key]
    ELSE NoEntry

\* a test that takes any registered entry for an implemented check
Implemented_any_entry(known, key) == Get(known, key) # NoEntry

\* KNOWN_CHECKS.get(key, {}).get("status") == "implemented"
Implemented(known, key) == Get(known, key).status = "implemented"

\* GapItem, lines 142-152; `description` names the rule the text describes
GapItem(category, description, priority, schema_source, affected_elements, epubverify_status) ==
    [category          |-> category,
     description       |-> description,
     priority          |-> priority,
     schema_source     |-> schema_source,
     affected_elements |-> affected_elements,
     epubverify_status |-> epubverify_status,
     go_file           |-> "",
     note              |-> ""]

\* analyze_gaps, lines 649-672: phrasing-only parents
RECURSIVE PhrasingGaps(_, _)
PhrasingGaps(known, elems) ==
    IF elems = <<>> THEN <<>>
    ELSE LET elem    == Head(elems)
             rule_id == elem \o <<"-", "p", "h", "r", "a", "s", "i", "n", "g", "-", "o", "n", "l", "y">>
             entry   == Get(known, rule_id)
             gap     == [GapItem("content-model",
                                 [rule |-> "phrasing-only", elem |-> elem],
                                 IF elem \in {<<"p">>, <<"h", "1">>, <<"h", "2">>, <<"h", "3">>, <<"h", "4">>,
                                              <<"h", "5">>, <<"h", "6">>, <<"s", "p", "a", "n">>}
                                 THEN "high" ELSE "medium",
                                 IF elem \in {<<"p">>, <<"p", "r", "e">>}
                                 THEN "mod/html5/block.rnc"
                                 ELSE "mod/html5/phrase.rnc",
                                 <<elem>>,
                                 IF entry # NoEntry THEN entry.status ELSE "missing")
                            EXCEPT !.go_file = entry.go]
         IN  (IF entry.status = "implemented"
                    \/ Implemented(known, <<"b", "l", "o", "c", "k", "-", "i", "n", "-", "p", "h", "r", "a", "s", "i", "n", "g">>)
              THEN <<>> ELSE <<gap>>)
             \o PhrasingGaps(known, Tail(elems))

\* analyze_gaps, lines 674-685: void elements
VoidGaps(known) ==
    IF Implemented(known, <<"v", "o", "i", "d", "-", "e", "l", "e", "m", "e", "n", "t", "s", "-", "n", "o", "-", "c", "h", "i", "l", "d", "r", "e", "n">>) THEN <<>>
    ELSE << GapItem("content-model", [rule |-> "void", elem |-> <<>>], "medium",
                    "mod/html5/phrase.rnc", SortedVoidElements, "missing") >>

\* analyze_gaps, lines 687-715: restricted children
RECURSIVE RestrictedGaps(_, _)
RestrictedGaps(known, items) ==
    IF items = <<>> THEN <<>>
    ELSE LET parent == Head(items).parent
             restricted_children_implemented ==
                 /\ Implemented(known, <<"u", "l", "-", "o", "l", "-", "c", "h", "i", "l", "d", "r", "e", "n">>)
                 /\ Implemented(known, <<"t", "r", "-", "c", "h", "i", "l", "d", "r", "e", "n">>)
                 /\ Implemented(known, <<"d", "l", "-", "s", "t", "r", "u", "c", "t", "u", "r", "e">>)
             is_checked ==
                 \/ restricted_children_implemented
                 \/ \E i \in DOMAIN known :
                       /\ Contains(known[i].key, parent)
                       /\ known[i].status = "implemented"
             gap == GapItem("element-nesting",
                            [rule |-> "restricted-children", elem |-> parent],
                            IF parent \in {<<"u", "l">>, <<"o", "l">>, <<"t", "a", "b", "l", "e">>, <<"t", "r">>, <<"s", "e", "l", "e", "c", "t">>}
                            THEN "high" ELSE "medium",
                            IF parent \in {<<"u", "l">>, <<"o", "l">>, <<"d", "l">>}
                            THEN "mod/html5/block.rnc"
                            ELSE "mod/html5/tables.rnc",
                            <<parent>> \o Head(items).allowed,
                            "missing")
         IN  (IF is_checked THEN <<>> ELSE <<gap>>)
             \o RestrictedGaps(known, Tail(items))

\* analyze_gaps, lines 717-738: transparent content model
RECURSIVE TransparentGaps(_, _)
TransparentGaps(known, elems) ==
    IF elems = <<>> THEN <<>>
    ELSE LET elem == Head(elems)
             found == {i \in DOMAIN known :
                          /\ Contains(known[i].key, elem)
                          /\ Contains(known[i].key, <<"t", "r", "a", "n", "s", "p", "a", "r", "e", "n", "t">>)}
             known_t == IF found = {} THEN NoEntry
                        ELSE known[CHOOSE i \in found : \A j \in found : i <= j]
             gap == GapItem("content-model",
                            [rule |-> "transparent", elem |-> elem], "low",
                            IF elem = <<"a">> THEN "mod/html5/phrase.rnc"
                            ELSE "mod/html5/embed.rnc",
                            <<elem>>, "missing")
         IN  (IF Implemented(known, <<"a", "-", "t", "r", "a", "n", "s", "p", "a", "r", "e", "n", "t", "-", "f", "l", "o", "w">>)
                    \/ known_t.status = "implemented"
              THEN <<>> ELSE <<gap>>)
             \o TransparentGaps(known, Tail(elems))

\* analyze_gaps, lines 740-792: the four single rules
SingleGaps(known) ==
    LET known_i == Get(known, <<"i", "n", "t", "e", "r", "a", "c", "t", "i", "v", "e", "-", "i", "n", "-", "i", "n", "t", "e", "r", "a", "c", "t", "i", "v", "e">>)
    IN  (IF known_i.status = "implemented" THEN <<>>
         ELSE << [GapItem("element-nesting",
                          [rule |-> "interactive", elem |-> <<>>], "medium",
                          "mod/html5/phrase.rnc",
                          << <<"a">>, <<"b", "u", "t", "t", "o", "n">>, <<"i", "n", "p", "u", "t">>, <<"s", "e", "l", "e", "c", "t">>, <<"t", "e", "x", "t", "a", "r", "e", "a">>,
                             <<"l", "a", "b", "e", "l">> >>,
                          IF known_i # NoEntry THEN "partial" ELSE "missing")
                     EXCEPT !.go_file = "content.go:checkNestedAnchors",
                            !.note = "Only nested <a> is currently checked"] >>)
        \o (IF Implemented(known, <<"i", "n", "p", "u", "t", "-", "t", "y", "p", "e">>) THEN <<>>
            ELSE << GapItem("attribute", [rule |-> "input-type", elem |-> <<>>],
                            "low", "mod/html5/web-forms.rnc", << <<"i", "n", "p", "u", "t">> >>,
                            "missing") >>)
        \o (IF Implemented(known, <<"p", "i", "c", "t", "u", "r", "e", "-", "i", "m", "g", "-", "r", "e", "q", "u", "i", "r", "e", "d">>) THEN <<>>
            ELSE << GapItem("content-model", [rule |-> "picture", elem |-> <<>>],
                            "low", "mod/html5/embed.rnc",
                            << <<"p", "i", "c", "t", "u", "r", "e">>, <<"s", "o", "u", "r", "c", "e">>, <<"i", "m", "g">> >>, "missing") >>)
        \o (IF Implemented(known, <<"f", "i", "g", "u", "r", "e", "-", "f", "i", "g", "c", "a", "p", "t", "i", "o", "n", "-", "p", "o", "s", "i", "t", "i", "o", "n">>) THEN <<>>
            ELSE << GapItem("content-model", [rule |-> "figure", elem |-> <<>>],
                            "low", "mod/html5/media.rnc",
                            << <<"f", "i", "g", "u", "r", "e">>, <<"f", "i", "g", "c", "a", "p", "t", "i", "o", "n">> >>, "missing") >>)

\* a gap analysis that drops the gaps about an element for which the
\* extraction found a content rule
analyze_gaps_reads_rules(elems, rules, known) ==
    LET Unruled(g) == \/ g.affected_elements = <<>>
                      \/ g.affected_elements[1] \notin DOMAIN rules
    IN  SelectSeq(
            PhrasingGaps(known, SortedPhrasingParents)
                \o VoidGaps(known)
                \o RestrictedGaps(known, SortedRestrictedChildren)
                \o TransparentGaps(known, << <<"a">>, <<"i", "n", "s">>, <<"d", "e", "l">>, <<"o", "b", "j", "e", "c", "t">>, <<"v", "i", "d", "e", "o">>,
                                             <<"a", "u", "d", "i", "o">>, <<"m", "a", "p">> >>)
                \o SingleGaps(known),
            Unruled)

\* analyze_gaps, lines 642-795; the two arguments are not read
analyze_gaps(elems, rules, known) ==
    PhrasingGaps(known, SortedPhrasingParents)
        \o VoidGaps(known)
        \o RestrictedGaps(known, SortedRestrictedChildren)
        \o TransparentGaps(known, << <<"a">>, <<"i", "n", "s">>, <<"d", "e", "l">>, <<"o", "b", "j", "e", "c", "t">>, <<"v", "i", "d", "e", "o">>,
                                     <<"a", "u", "d", "i", "o">>, <<"m", "a", "p">> >>)
        \o SingleGaps(known)

\* line 1222: gaps.sort(key=priority), a stable sort
SortGaps(gs) ==
    LET High(g) == g.priority = "high"
        Medium(g) == g.priority = "medium"
        Low(g) == g.priority = "low"
    IN  SelectSeq(gs, High) \o SelectSeq(gs, Medium) \o SelectSeq(gs, Low)

-----------------------------------------------------------------------------
(* relaxng-audit.py: reports, fixtures and scenario skeletons *)

\* the summary both emitters print, lines 816-842 and 927-940
RngSummary(elems, gs, known) ==
    LET Flow(e) == e.content_category \in {"flow", "phrasing+flow"}
        Phrasing(e) == e.content_category \in {"phrasing", "phrasing+flow"}
        Void(e) == e.is_void
        Impl(v) == v.status = "implemented"
        Partial(v) == v.status = "partial"
        Missing(v) == v.status = "missing"
        High(g) == g.priority = "high"
        Medium(g) == g.priority = "medium"
        Low(g) == g.priority = "low"
    IN  [total_elements       |-> Len(elems),
         flow_elements        |-> Len(SelectSeq(elems, Flow)),
         phrasing_elements    |-> Len(SelectSeq(elems, Phrasing)),
         void_elements        |-> Len(SelectSeq(elems, Void)),
         known_checks         |-> Len(known),
         implemented          |-> Len(SelectSeq(known, Impl)),
         partial              |-> Len(SelectSeq(known, Partial)),
         missing              |-> Len(SelectSeq(known, Missing)),
         gaps                 |-> Len(gs),
         high_priority_gaps   |-> Len(SelectSeq(gs, High)),
         medium_priority_gaps |-> Len(SelectSeq(gs, Medium)),
         low_priority_gaps    |-> Len(SelectSeq(gs, Low))]

\* print_text_report, lines 802-917: the summary, the [OK] / [GAP] marker of
\* every phrasing-only parent, the status of the void check and the gaps by
\* priority (at most ten elements of each)
rng_print_text_report(elems, rules, gs, known) ==
    [kind        |-> "text",
     summary     |-> RngSummary(elems, gs, known),
     markers     |-> [i \in DOMAIN SortedPhrasingParents |->
                         IF Implemented(known, SortedPhrasingParents[i]
                                                  \o <<"-", "p", "h", "r", "a", "s", "i", "n", "g", "-", "o", "n", "l", "y">>)
                               \/ Implemented(known, <<"b", "l", "o", "c", "k", "-", "i", "n", "-", "p", "h", "r", "a", "s", "i", "n", "g">>)
                         THEN "[OK]" ELSE "[GAP]"],
     void_status |-> IF Get(known, <<"v", "o", "i", "d", "-", "e", "l", "e", "m", "e", "n", "t", "s", "-", "n", "o", "-", "c", "h", "i", "l", "d", "r", "e", "n">>) = NoEntry
                     THEN "missing"
                     ELSE Get(known, <<"v", "o", "i", "d", "-", "e", "l", "e", "m", "e", "n", "t", "s", "-", "n", "o", "-", "c", "h", "i", "l", "d", "r", "e", "n">>).status,
     gaps        |-> [i \in DOMAIN SortGaps(gs) |->
                         [SortGaps(gs)[i] EXCEPT
                             !.affected_elements = Take(@, 10)]]]

\* print_json_report, lines 920-955
rng_print_json_report(elems, rules, gs, known) ==
    [kind         |-> "json",
     summary      |-> RngSummary(elems, gs, known),
     gaps         |-> gs,
     known_checks |-> {known[i] : i \in DOMAIN known}]

\* generate_test_fixtures, lines 1065-1093: `gs` is not read
rng_generate_test_fixtures(gs) ==
    LET Fixtures(table, kind) ==
            [i \in DOMAIN table |->
                File("fixture", [table |-> kind, parent |-> table[i].parent],
                     "xhtml", <<"rng-", table[i].test_id>>, ".xhtml",
                     [template |-> "XHTML_TEMPLATE", test_id |-> table[i].test_id])]
    IN  Fixtures(BLOCK_IN_INLINE_FIXTURES, "block-in-inline")
            \o Fixtures(RESTRICTED_CHILDREN_FIXTURES, "restricted-children")
            \o Fixtures(VOID_ELEMENT_FIXTURES, "void-element")

\* generate_feature_snippet, lines 1096-1135: `gs` is not read
rng_generate_feature_snippet(gs) ==
    LET Skeletons(table) ==
            [i \in DOMAIN table |->
                [test_id    |-> table[i].test_id,
                 fixture    |-> <<"rng-", table[i].test_id>>,
                 ext        |-> ".xhtml",
                 error_code |-> "RSC-005"]]
    IN  Skeletons(BLOCK_IN_INLINE_FIXTURES)
            \o Skeletons(RESTRICTED_CHILDREN_FIXTURES)
            \o Skeletons(VOID_ELEMENT_FIXTURES)

-----------------------------------------------------------------------------
(* relaxng-audit.py: the inputs of one run *)

ElemMatch(pattern_name, elem_name, body) ==
    [pattern_name |-> pattern_name, elem_name |-> elem_name, body |-> body]

InnerMatch(pattern_name, content) ==
    [pattern_name |-> pattern_name, content |-> content]

Grammar(elems, inners, flow, phrasing, metadata) ==
    [state |-> "ok", elems |-> elems, inners |-> inners, flow |-> flow,
     phrasing |-> phrasing, metadata |-> metadata]

AbsentGrammar == [state |-> "absent"]

\* mod/html5/block.rnc: p, pre and hr
BlockGrammar ==
    Grammar(<< ElemMatch(<<"p", ".", "e", "l", "e", "m">>, <<"p">>, <<" ", "p", ".", "i", "n", "n", "e", "r", " ", "&", " ", "p", ".", "a", "t", "t", "r", "s", " ">>),
               ElemMatch(<<"p", "r", "e", ".", "e", "l", "e", "m">>, <<"p", "r", "e">>, <<" ", "p", "r", "e", ".", "i", "n", "n", "e", "r", " ">>),
               ElemMatch(<<"h", "r", ".", "e", "l", "e", "m">>, <<"h", "r">>, <<" ", "(", " ", "e", "m", "p", "t", "y", " ", ")", " ">>) >>,
            << InnerMatch(<<"p", ".", "i", "n", "n", "e", "r">>, <<" ", "c", "o", "m", "m", "o", "n", ".", "i", "n", "n", "e", "r", ".", "p", "h", "r", "a", "s", "i", "n", "g", " ">>),
               InnerMatch(<<"p", "r", "e", ".", "i", "n", "n", "e", "r">>, <<" ", "c", "o", "m", "m", "o", "n", ".", "i", "n", "n", "e", "r", ".", "p", "h", "r", "a", "s", "i", "n", "g", " ">>) >>,
            << <<"p", ".", "e", "l", "e", "m">>, <<"p", "r", "e", ".", "e", "l", "e", "m">>, <<"h", "r", ".", "e", "l", "e", "m">> >>, <<>>, <<>>)

\* mod/html5/phrase.rnc: a (two definitions), br, and p defined again
PhraseGrammar ==
    Grammar(<< ElemMatch(<<"a", ".", "e", "l", "e", "m", ".", "p", "h", "r", "a", "s", "i", "n", "g">>, <<"a">>, <<" ", "a", ".", "i", "n", "n", "e", "r", ".", "p", "h", "r", "a", "s", "i", "n", "g", " ">>),
               ElemMatch(<<"a", ".", "e", "l", "e", "m", ".", "f", "l", "o", "w">>, <<"a">>, <<" ", "a", ".", "i", "n", "n", "e", "r", ".", "f", "l", "o", "w", " ">>),
               ElemMatch(<<"b", "r", ".", "e", "l", "e", "m">>, <<"b", "r">>, <<" ", "b", "r", ".", "i", "n", "n", "e", "r", " ">>),
               ElemMatch(<<"p", ".", "e", "l", "e", "m">>, <<"p">>, <<" ", "e", "m", "p", "t", "y", " ">>) >>,
            << InnerMatch(<<"a", ".", "i", "n", "n", "e", "r", ".", "p", "h", "r", "a", "s", "i", "n", "g">>, <<" ", "c", "o", "m", "m", "o", "n", ".", "i", "n", "n", "e", "r", ".", "p", "h", "r", "a", "s", "i", "n", "g", " ">>),
               InnerMatch(<<"a", ".", "i", "n", "n", "e", "r", ".", "f", "l", "o", "w">>, <<" ", "c", "o", "m", "m", "o", "n", ".", "i", "n", "n", "e", "r", ".", "t", "r", "a", "n", "s", "p", "a", "r", "e", "n", "t", ".", "f", "l", "o", "w", " ">>),
               InnerMatch(<<"b", "r", ".", "i", "n", "n", "e", "r">>, <<" ", "e", "m", "p", "t", "y", " ">>),
               InnerMatch(<<"p", ".", "i", "n", "n", "e", "r">>, <<" ", "c", "o", "m", "m", "o", "n", ".", "i", "n", "n", "e", "r", ".", "f", "l", "o", "w", " ">>) >>,
            << <<"a", ".", "e", "l", "e", "m", ".", "f", "l", "o", "w">> >>,
            << <<"a", ".", "e", "l", "e", "m", ".", "p", "h", "r", "a", "s", "i", "n", "g">>, <<"a", ".", "e", "l", "e", "m", ".", "f", "l", "o", "w">>, <<"b", "r", ".", "e", "l", "e", "m">> >>,
            <<>>)

\* what a file of the list can hold in the snapshot
GrammarStates(fname) ==
    CASE fname = "mod/html5/block.rnc"  -> {AbsentGrammar, BlockGrammar}
      [] fname = "mod/html5/phrase.rnc" -> {AbsentGrammar, PhraseGrammar}
      [] OTHER -> {AbsentGrammar, Grammar(<<>>, <<>>, <<>>, <<>>, <<>>)}

RngSnapshots ==
    {files \in [Range(GrammarFiles) ->
                   UNION {GrammarStates(f) : f \in Range(GrammarFiles)}] :
        \A f \in Range(GrammarFiles) : files[f] \in GrammarStates(f)}

\* the registries: KNOWN_CHECKS with each entry of VariedKeys as it is,
\* recorded as partial, or removed
VariedKeys ==
    { <<"b", "l", "o", "c", "k", "-", "i", "n", "-", "p", "h", "r", "a", "s", "i", "n", "g">>, <<"s", "p", "a", "n", "-", "p", "h", "r", "a", "s", "i", "n", "g", "-", "o", "n", "l", "y">>, <<"v", "o", "i", "d", "-", "e", "l", "e", "m", "e", "n", "t", "s", "-", "n", "o", "-", "c", "h", "i", "l", "d", "r", "e", "n">>,
      <<"u", "l", "-", "o", "l", "-", "c", "h", "i", "l", "d", "r", "e", "n">>, <<"a", "-", "t", "r", "a", "n", "s", "p", "a", "r", "e", "n", "t", "-", "f", "l", "o", "w">> }

Registry(variant) ==
    LET Kept(v) == v.key \notin VariedKeys \/ variant[v.key] # "absent"
        kept == SelectSeq(KNOWN_CHECKS, Kept)
    IN  [i \in DOMAIN kept |->
            IF kept[i].key \in VariedKeys
            THEN [kept[i] EXCEPT !.status = variant[kept[i].key]]
            ELSE kept[i]]

RngRegistries ==
    {Registry(variant) :
        variant \in [VariedKeys -> {"implemented", "partial", "absent"}]}

-----------------------------------------------------------------------------
(* relaxng-audit.py: main(), lines 1171-1252 *)

\* ensure_epubcheck, lines 1142-1157: the git operations that use the network
rng_ensure_epubcheck(cache_exists) ==
    IF cache_exists THEN <<>> ELSE <<"clone">>

\* lines 1196-1211: the repository root and the schema directory
RngLocateSchemas ==
    /\ audit = "relaxng" /\ pc = "start"
    /\ trace' = Append(trace, "locate_schemas")
    /\ \E go_mod \in BOOLEAN, cache_exists \in BOOLEAN, clone_ok \in BOOLEAN,
          schema_dir_exists \in BOOLEAN :
          IF ~go_mod
          THEN /\ stderr' = Append(stderr, Error("go.mod"))
               /\ Exit(1)
               /\ UNCHANGED netOps
          ELSE IF skip_update
          THEN /\ UNCHANGED netOps
               /\ IF cache_exists /\ schema_dir_exists
                  THEN pc' = "parse_rnc_files" /\ UNCHANGED <<stderr, exit_code>>
                  ELSE /\ stderr' = Append(stderr, Error("cached epubcheck"))
                       /\ Exit(1)
          ELSE /\ netOps' = netOps \o rng_ensure_epubcheck(cache_exists)
               /\ IF ~cache_exists /\ ~clone_ok
                  THEN Exit(1) /\ UNCHANGED stderr
                  ELSE IF ~schema_dir_exists
                  THEN /\ stderr' = Append(stderr, Error("schema directory"))
                       /\ Exit(1)
                  ELSE pc' = "parse_rnc_files" /\ UNCHANGED <<stderr, exit_code>>
    /\ UNCHANGED <<audit, skip_update, stdout, absent, result, known_checks,
                   written>>
    /\ UNCHANGED <<javaVars, schVars, rngVars>>

\* line 1218: parse_rnc_files; an absent file is skipped without a message
RngParseRncFiles ==
    /\ audit = "relaxng" /\ pc = "parse_rnc_files"
    /\ Step("parse_rnc_files", "analyze_gaps")
    /\ \E files \in RngSnapshots :
          LET parsed == parse_rnc_files(files, GrammarFiles)
          IN  /\ elements' = parsed.elements
              /\ content_rules' = parsed.content_rules
              /\ raw_patterns' = parsed.raw_patterns
              /\ absent' = absent \cup
                    {f \in Range(GrammarFiles) : files[f].state = "absent"}
    /\ UNCHANGED <<audit, skip_update, netOps, stderr, stdout, exit_code, result,
                   known_checks, gaps, written>>
    /\ UNCHANGED <<javaVars, schVars>>

\* lines 1221-1222: analyze_gaps and the sort by priority
RngAnalyzeGaps ==
    /\ audit = "relaxng" /\ pc = "analyze_gaps"
    /\ Step("analyze_gaps", "print_report")
    /\ gaps' = SortGaps(analyze_gaps(elements, content_rules, known_checks))
    /\ UNCHANGED <<audit, skip_update, netOps, stderr, stdout, exit_code, absent,
                   result, known_checks, elements, content_rules, raw_patterns,
                   written>>
    /\ UNCHANGED <<javaVars, schVars>>

\* lines 1224-1228: print_json_report or print_text_report
RngPrintReport ==
    /\ audit = "relaxng" /\ pc = "print_report"
    /\ \E json \in BOOLEAN :
          IF json
          THEN /\ stdout' = rng_print_json_report(elements, content_rules, gaps,
                                                  known_checks)
               /\ Step("print_json_report", "generate_tests")
          ELSE /\ stdout' = rng_print_text_report(elements, content_rules, gaps,
                                                  known_checks)
               /\ Step("print_text_report", "generate_tests")
    /\ UNCHANGED <<audit, skip_update, netOps, stderr, exit_code, absent, result,
                   known_checks, written>>
    /\ UNCHANGED <<javaVars, schVars, rngVars>>

\* lines 1230-1247: with --generate-tests the fixtures and the snippet are
\* written; gaps_dir.relative_to(repo_root) raises ValueError for an
\* --output-dir outside the repository
RngGenerateTests ==
    /\ audit = "relaxng" /\ pc = "generate_tests"
    /\ \E generate_tests \in BOOLEAN, output_dir_in_repo \in BOOLEAN :
          IF ~generate_tests
          THEN /\ pc' = "exit"
               /\ UNCHANGED <<trace, written, exit_code>>
          ELSE /\ trace' = Append(trace, "generate_tests")
               /\ IF ~output_dir_in_repo
                  THEN Exit(1) /\ UNCHANGED written
                  ELSE /\ written' =
                             rng_generate_test_fixtures(gaps)
                             \o << File("snippet", "", "",
                                        <<"rng-generated-scenarios">>,
                                        ".feature.txt",
                                        rng_generate_feature_snippet(gaps)) >>
                       /\ pc' = "exit"
                       /\ UNCHANGED exit_code
    /\ UNCHANGED <<audit, skip_update, netOps, stderr, stdout, absent, result,
                   known_checks>>
    /\ UNCHANGED <<javaVars, schVars, rngVars>>

\* lines 1249-1252: exit status 2 when a high-priority gap exists
RngExit ==
    /\ audit = "relaxng" /\ pc = "exit"
    /\ Exit(IF \E i \in DOMAIN gaps : gaps[i].priority = "high" THEN 2 ELSE 0)
    /\ UNCHANGED <<audit, skip_update, netOps, stderr, stdout, trace, absent,
                   result, known_checks, written>>
    /\ UNCHANGED <<javaVars, schVars, rngVars>>

RngNext ==
    \/ RngLocateSchemas
    \/ RngParseRncFiles
    \/ RngAnalyzeGaps
    \/ RngPrintReport
    \/ RngGenerateTests
    \/ RngExit

-----------------------------------------------------------------------------
(* The reconciler and the emitters of java-audit.py on every set of rule     *)
(* records and every override table: the run starts where main() calls     *)
(* apply_overrides.                                                         *)

\* the rule records the extraction passes and the scanners can leave for
\* one ID that the severity table binds
RuleRecords(code) ==
    { [MessageInfo(code, CategoryOf(code)) EXCEPT
          !.severity     = sev,
          !.in_go_code   = go,
          !.in_bdd_tests = bdd] :
      sev \in Severities, go \in BOOLEAN, bdd \in BOOLEAN }

RuleRecordSets ==
    UNION { {m \in [D -> UNION {RuleRecords(c) : c \in D}] :
                \A c \in D : m[c].code = c} : D \in SUBSET Codes }

\* every KNOWN_OVERRIDES over the IDs of Codes
AllOverrideTables ==
    UNION { [D -> {OverrideEntry(st) : st \in OverrideStatuses}] :
              D \in SUBSET Codes }

InitReconcile ==
    /\ audit = "java"
    /\ pc = "apply_overrides"
    /\ trace = <<>>
    /\ skip_update = TRUE
    /\ netOps = <<>>
    /\ stderr = <<>>
    /\ stdout = NoReport
    /\ exit_code = Running
    /\ absent = {}
    /\ known_overrides \in AllOverrideTables
    /\ messages \in RuleRecordSets
    /\ result = NoResult
    /\ known_checks = EmptyMap
    /\ checks = <<>>
    /\ elements = <<>>
    /\ content_rules = EmptyMap
    /\ raw_patterns = EmptyMap
    /\ gaps = <<>>
    /\ written = <<>>

NextReconcile == JavaApplyOverrides \/ JavaGenerateReport \/ JavaPrintReport

SpecReconcile == InitReconcile /\ [][NextReconcile]_vars

-----------------------------------------------------------------------------
(* One invocation of one of the three scripts *)

Init ==
    /\ audit \in {"java", "schematron", "relaxng"}
    /\ pc = "start"
    /\ trace = <<>>
    /\ skip_update \in BOOLEAN
    /\ netOps = <<>>
    /\ stderr = <<>>
    /\ stdout = NoReport
    /\ exit_code = Running
    /\ absent = {}
    /\ known_overrides \in IF audit = "java" THEN OverrideTables ELSE {EmptyMap}
    /\ messages = EmptyMap
    /\ result = NoResult
    /\ known_checks \in CASE audit = "java"       -> {EmptyMap}
                          [] audit = "schematron" -> SchRegistries
                          [] audit = "relaxng"    -> RngRegistries
    /\ checks = <<>>
    /\ elements = <<>>
    /\ content_rules = EmptyMap
    /\ raw_patterns = EmptyMap
    /\ gaps = <<>>
    /\ written = <<>>

Next == JavaNext \/ SchNext \/ RngNext

Spec == Init /\ [][Next]_vars

-----------------------------------------------------------------------------
(* Properties of java-audit.py *)

\* C1: the reconciled status of a check ID is the first that applies of:
\* the status of its override entry, if KNOWN_OVERRIDES has one; suppressed,
\* if the reference severity is SUPPRESSED; implemented, if the ID is found
\* in the Go source; missing otherwise.
ExpectedStatus(code) ==
    IF code \in DOMAIN known_overrides THEN known_overrides[code].status
    ELSE IF messages[code].severity = "SUPPRESSED" THEN "suppressed"
    ELSE IF messages[code].in_go_code THEN "implemented"
    ELSE "missing"

C1_StatusPrecedence ==
    /\ pc # "apply_overrides" =>
          \A code \in DOMAIN messages : status(messages[code]) = ExpectedStatus(code)
    /\ stdout.kind = "json" =>
          \A i \in DOMAIN stdout.messages :
              stdout.messages[i].status = ExpectedStatus(stdout.messages[i].code)

\* a JSON report in which an override outranks suppression and evidence, and
\* suppression outranks evidence
C1_Witness ==
    /\ stdout.kind = "json"
    /\ \E c \in DOMAIN messages, d \in DOMAIN messages :
          /\ c \in DOMAIN known_overrides
          /\ known_overrides[c].status = "wontfix"
          /\ messages[c].severity = "SUPPRESSED" /\ messages[c].in_go_code
          /\ d \notin DOMAIN known_overrides
          /\ messages[d].severity = "SUPPRESSED" /\ messages[d].in_go_code

\* C2: whatever status the override entries carry (implemented, partial,
\* wontfix or note), the five bucket counts of the result sum to total_codes,
\* and in the text report the five status counts of each category sum to the
\* total of that category.
C2_BucketsPartition ==
    /\ result.kind = "result" =>
          result.implemented + result.suppressed + result.wontfix
              + result.partial + result.missing = result.total_codes
    /\ stdout.kind = "text" =>
          /\ ~stdout.raised
          /\ \A cat \in DOMAIN stdout.categories :
                LET row == stdout.categories[cat]
                IN  row.implemented + row.suppressed + row.wontfix
                        + row.partial + row.missing = row.total

\* the rule records of this run with the scenario coverage replaced by B
WithBdd(msgs, B) ==
    [code \in DOMAIN msgs |-> [msgs[code] EXCEPT !.in_bdd_tests = code \in B]]

\* C3: the scenario coverage of an ID changes neither its status nor the five
\* bucket counts; the tested count is the number of IDs with coverage.
C3_BddIndependent ==
    result.kind = "result" =>
       /\ result.tested =
             Cardinality({c \in DOMAIN messages : messages[c].in_bdd_tests})
       /\ \A B \in SUBSET DOMAIN messages :
             LET alt == generate_report(WithBdd(messages, B), Commit)
             IN  /\ alt.tested = Cardinality(B)
                 /\ \A b \in Buckets : alt[b] = result[b]
                 /\ \A i \in DOMAIN result.messages :
                       status(alt.messages[i]) = status(result.messages[i])

\* a result with a covered ID that is missing and an uncovered ID
C3_Witness ==
    /\ result.kind = "result"
    /\ \E c \in DOMAIN messages, d \in DOMAIN messages :
          /\ messages[c].in_bdd_tests /\ status(messages[c]) = "missing"
          /\ ~messages[d].in_bdd_tests
    /\ result.tested = 1

\* the rule records of this run before find_java_emitters
ClearJavaFiles(msgs) ==
    [code \in DOMAIN msgs |-> [msgs[code] EXCEPT !.java_files = <<>>]]

\* C5: the JSON report of a run is the same for every order in which the
\* file system yields the Java files of the snapshot.
C5_JsonOrderIndependent ==
    (stdout.kind = "json" /\ "src/main/java" \notin absent) =>
       \A order \in Perms(JavaFiles) :
          print_json_report(
              generate_report(find_java_emitters(ClearJavaFiles(messages), order),
                              Commit)) = stdout

\* C6: the aggregate counts the text emitter prints are the summary counts
\* the JSON emitter prints for the same result.
SameCounts(counts, summary) ==
    /\ counts.total = summary.total
    /\ counts.implemented = summary.implemented
    /\ counts.tested = summary.tested_bdd
    /\ counts.suppressed = summary.suppressed
    /\ counts.wontfix = summary.wontfix
    /\ counts.partial = summary.partial
    /\ counts.missing = summary.missing

C6_TextCountsEqualJson ==
    /\ stdout.kind = "text" =>
          SameCounts(stdout.counts, print_json_report(result).summary)
    /\ stdout.kind = "json" =>
          \A summary_only \in BOOLEAN :
             SameCounts(print_text_report(result, summary_only).counts,
                        stdout.summary)

\* a text report whose seven counts are not all equal
C6_Witness ==
    /\ stdout.kind = "text"
    /\ stdout.counts.total = NumCodes
    /\ stdout.counts.partial = 1
    /\ stdout.counts.wontfix = 0
    /\ stdout.counts.tested = 1

\* C7: when MessageId.java is absent the run ends with a non-zero status at
\* parse_message_ids: no later stage runs and nothing is reported.
C7_MissingEnumerationAborts ==
    Error("MessageId.java") \in Range(stderr) =>
       /\ pc = "done"
       /\ exit_code = 1
       /\ trace = <<"ensure_epubcheck", "parse_message_ids">>
       /\ stdout = NoReport
       /\ result = NoResult
       /\ messages = EmptyMap

\* a run that found the snapshot and no MessageId.java in it
C7_Witness ==
    /\ audit = "java"
    /\ Error("MessageId.java") \in Range(stderr)
    /\ pc = "done"
    /\ skip_update

-----------------------------------------------------------------------------
(* Properties of the three scripts *)

\* the unresolved gaps of a finished run: missing checks (java-audit,
\* schematron-audit) or high-priority Gap Items (relaxng-audit)
GapsRemain ==
    CASE audit = "java"       -> result.kind = "result" /\ result.missing > 0
      [] audit = "schematron" -> result.kind = "result" /\ result.missing > 0
      [] audit = "relaxng"    -> \E i \in DOMAIN gaps : gaps[i].priority = "high"

\* C4: a run of any of the three scripts that has printed its report and
\* leaves unresolved gaps ends with a non-zero exit status.
C4_NonZeroExitWhenGapsRemain ==
    (pc = "done" /\ stdout # NoReport /\ GapsRemain) => exit_code # 0

\* C8: when an optional reference resource is absent the run prints a
\* warning that names it and goes on: the rule records keep the empty
\* severity / description and the report is still printed.
C8_AbsentResourceWarnsAndContinues ==
    /\ \A r \in absent : Warning(r) \in Range(stderr)
    /\ "DefaultSeverities.java" \in absent =>
          \A code \in DOMAIN messages : messages[code].severity = ""
    /\ "MessageBundle.properties" \in absent =>
          \A code \in DOMAIN messages : messages[code].message_text = ""
    /\ (absent # {} /\ pc = "done" /\ exit_code \in {0, 2}) => stdout # NoReport

\* C9: with --skip-update no script runs git clone or git fetch.
C9_SkipUpdateNoNetwork ==
    skip_update => netOps = <<>>

\* the Gap Item a fixture of relaxng-audit is a test for
GapOfFixture(f, g) ==
    \/ /\ f.rule.table = "block-in-inline"
       /\ g.description = [rule |-> "phrasing-only", elem |-> f.rule.parent]
    \/ /\ f.rule.table = "restricted-children"
       /\ g.description = [rule |-> "restricted-children", elem |-> f.rule.parent]
    \/ /\ f.rule.table = "void-element"
       /\ g.description.rule = "void"
       /\ f.rule.parent \in Range(g.affected_elements)

\* C10: every fixture file a run writes is for a rule that is missing at
\* that time: a pattern without registry entry (schematron-audit), a rule
\* with a Gap Item of status missing (relaxng-audit); so no fixture is
\* written when nothing is missing.
C10_FixturesOnlyForMissingRules ==
    \A i \in DOMAIN written :
        written[i].kind = "fixture" =>
            CASE audit = "schematron" ->
                     /\ written[i].rule \notin DOMAIN known_checks
                     /\ \E k \in DOMAIN result.missing_checks :
                           result.missing_checks[k].pattern_id = written[i].rule
              [] audit = "relaxng" ->
                     \E k \in DOMAIN gaps :
                        /\ gaps[k].epubverify_status = "missing"
                        /\ GapOfFixture(written[i], gaps[k])


\* the rule record of OPF-004a, once the override pass has run, when neither
\* the severity table nor the message resource had an entry for it
OPF_004a == <<"OPF", "-", "004a">>

BareRecord ==
    /\ audit = "java"
    /\ "apply_overrides" \in Range(trace)
    /\ OPF_004a \in DOMAIN messages
    /\ messages[OPF_004a].severity = ""
    /\ messages[OPF_004a].message_text = ""

\* C13 as stated: with the override table of the repository the bare record
\* of OPF-004a has category OPF and is missing unless the Go scanner found the
\* ID, in which case it is implemented.
C13_BareRecordMissingUnlessFound ==
    (BareRecord /\ known_overrides = KNOWN_OVERRIDES) =>
        /\ messages[OPF_004a].category = <<"OPF">>
        /\ status(messages[OPF_004a])
              = IF messages[OPF_004a].in_go_code THEN "implemented" ELSE "missing"

\* C13 amended: the bare record of OPF-004a has category OPF; with the
\* override table of the repository, which records OPF-004a as implemented,
\* its status is implemented whether or not the Go scanner found the ID;
\* with a table that has no entry for OPF-004a it is missing unless the Go
\* scanner found the ID, in which case it is implemented.
C13_BareRecordStatus ==
    BareRecord =>
        /\ messages[OPF_004a].category = <<"OPF">>
        /\ known_overrides = KNOWN_OVERRIDES =>
              status(messages[OPF_004a]) = "implemented"
        /\ OPF_004a \notin DOMAIN known_overrides =>
              status(messages[OPF_004a])
                 = IF messages[OPF_004a].in_go_code THEN "implemented" ELSE "missing"

C13_Witness ==
    /\ BareRecord
    /\ known_overrides = KNOWN_OVERRIDES
    /\ ~messages[OPF_004a].in_go_code
    /\ result.kind = "result" /\ result.implemented = NumCodes


\* the underscore form of a canonical ID (ACC_001 for ACC-001)
UnderscoreForm(code) == [code EXCEPT ![2] = "_"]

\* C15: the underscore form and the hyphen form of an ID (also with a suffix
\* letter, as OPF-004a) normalise to one hyphenated key in the enumeration
\* pass, the severity pass and the message-text pass, so a severity or a text
\* keyed by the underscore symbol is bound to the record made from the
\* hyphenated string; every record is keyed by a hyphenated ID and its
\* category is the prefix before the separator.
C15_NormalizationAgrees ==
    /\ (audit = "java" /\ pc = "parse_severities") =>
       \A i \in 1..Len(CodeNames) :
          LET hy == CodeNames[i]
              us == UnderscoreForm(hy)
          IN  /\ NormalizeCode(us) = hy /\ NormalizeCode(hy) = hy
              /\ EnumNameToCode(us) = hy
              /\ DOMAIN parse_message_ids(<<us, hy>>) = {hy}
              /\ parse_severities(parse_message_ids(<<hy>>),
                                  << <<us, "ERROR">> >>)[hy].severity = "ERROR"
              /\ parse_message_texts(parse_message_ids(<<us>>),
                     << [key |-> us, sug |-> FALSE, text |-> "text"] >>)[hy].message_text
                    = "text"
              /\ CategoryOf(NormalizeCode(us)) = <<hy[1]>>
    /\ audit = "java" =>
          \A code \in DOMAIN messages :
              /\ "_" \notin Range(code)
              /\ messages[code].code = code
              /\ messages[code].category = <<code[1]>>

C15_Witness ==
    /\ audit = "java" /\ pc = "find_java_emitters"
    /\ OPF_004a \in DOMAIN messages
    /\ messages[OPF_004a].severity = "ERROR"
    /\ messages[OPF_004a].message_text = "text"
    /\ messages[OPF_004a].category = <<"OPF">>

\* the enumeration has been parsed
AfterEnumeration == audit = "java" /\ pc \notin {"start", "parse_message_ids"}

\* the part of an override table whose IDs the enumeration defines
OnlyEnumerated(overrides) ==
    [code \in DOMAIN overrides \cap DOMAIN messages |-> overrides[code]]

\* C18: the enumeration is the only source of rule records.  Once
\* parse_message_ids has run, no later pass (severities, message texts,
\* origin discovery, the two scanners, the overrides) changes the set of IDs
\* that have a record; the ID that the enumeration does not define never
\* has a record, although it occurs in the severity table, the message
\* resource, the Java sources, the scanners' tokens and the override table;
\* the scanners and the override pass give the same records when the foreign
\* tokens and entries are left out; and the report counts and lists exactly
\* the enumerated IDs.
C18_EnumerationSoleSource ==
    /\ [][AfterEnumeration => DOMAIN messages' = DOMAIN messages]_vars
    /\ [](audit = "java" =>
            /\ ForeignCode \notin DOMAIN messages
            /\ pc = "find_go_implementations" =>
                  \A tokens \in EvidenceSets :
                     /\ find_go_implementations(messages, tokens)
                           = find_go_implementations(messages, tokens \cap DOMAIN messages)
                     /\ find_bdd_coverage(messages, tokens)
                           = find_bdd_coverage(messages, tokens \cap DOMAIN messages)
            /\ pc = "apply_overrides" =>
                  apply_overrides(messages, known_overrides)
                     = apply_overrides(messages, OnlyEnumerated(known_overrides))
            /\ result # NoResult =>
                  /\ result.total_codes = Cardinality(DOMAIN messages)
                  /\ {result.messages[i].code : i \in DOMAIN result.messages}
                        = DOMAIN messages
                  /\ Len(result.messages) = Cardinality(DOMAIN messages))

\* a run whose override table names the ID the enumeration does not define,
\* whose enumeration defines NumCodes IDs, and that reached the report
C18_Witness ==
    /\ audit = "java"
    /\ result # NoResult
    /\ ForeignCode \in DOMAIN known_overrides
    /\ result.total_codes = NumCodes
    /\ \E i \in DOMAIN result.messages :
          /\ result.messages[i].severity # ""
          /\ result.messages[i].in_go_code
          /\ result.messages[i].override_status # ""

\* the entries of the MISSING CHECKS section, as <<group, position>> pairs
ListedEntries(out) ==
    UNION { {<<g, e>> : e \in DOMAIN out.missing[g].entries} :
               g \in DOMAIN out.missing }

\* position of a severity in severity_order
SeverityRank(sev) ==
    CHOOSE i \in DOMAIN severity_order : severity_order[i] = sev

\* the section lists `msg` exactly once, in the group of its severity
ListedOnceInItsGroup(out, msg) ==
    LET at == {p \in ListedEntries(out) :
                  out.missing[p[1]].entries[p[2]].code = msg.code}
    IN  /\ Cardinality(at) = 1
        /\ \A p \in at : out.missing[p[1]].sev = SeverityGroup(msg)

\* what C19 asks of a text report `out` printed for `res`
MissingSectionComplete(res, out) ==
    /\ \A i \in DOMAIN res.messages :
          status(res.messages[i]) = "missing"
             => ListedOnceInItsGroup(out, res.messages[i])
    /\ \A g \in DOMAIN out.missing :
          /\ out.missing[g].sev \in Range(severity_order)
          /\ \A h \in DOMAIN out.missing :
                g < h => SeverityRank(out.missing[g].sev)
                            < SeverityRank(out.missing[h].sev)
    /\ out.missing_header = Cardinality(ListedEntries(out))
    /\ \A p \in ListedEntries(out) :
          Len(out.missing[p[1]].entries[p[2]].java) <= 3

\* C19: the human-readable (non-summary) report lists every check whose
\* status is missing exactly once, in the group of its severity, the groups
\* in the order FATAL, ERROR, WARNING, USAGE, INFO, UNKNOWN (empty severity
\* in UNKNOWN); the header count equals the number of entries listed and
\* each entry shows at most three origin locations.
C19_MissingSectionComplete ==
    (audit = "java" /\ pc = "print_report") =>
        MissingSectionComplete(result, print_text_report(result, FALSE))

\* the same, for the reports whose category table does not raise KeyError
C19_CompleteUnlessRaised ==
    (audit = "java" /\ pc = "print_report"
        /\ ~print_text_report(result, FALSE).raised) =>
        MissingSectionComplete(result, print_text_report(result, FALSE))

\* the files, other than the enumeration and the severity table, that
\* mention the symbolic constant of `code`
OriginsOf(code) ==
    {f \in JavaFiles \ {"MessageId", "DefaultSeverities"} :
        CodeToEnumName(code) \in Range(JavaFileRefs(f))}

\* the origin lists of `msgs` are duplicate free, leave out the enumeration
\* and severity-table files, and name exactly the files in OriginsOf
OriginListsExact(msgs) ==
    \A code \in DOMAIN msgs :
       LET l == msgs[code].java_files
       IN  /\ \A i, j \in DOMAIN l : l[i] = l[j] => i = j
           /\ "MessageId" \notin Range(l)
           /\ "DefaultSeverities" \notin Range(l)
           /\ Range(l) = OriginsOf(code)

\* C27: origin discovery records, for each ID, the short name of every Java
\* file other than MessageId and DefaultSeverities that mentions the ID's
\* constant, once per (ID, file): whatever order the files are scanned in,
\* no origin list has a duplicate, none names MessageId or DefaultSeverities,
\* each names exactly the files that mention the constant, and the scan
\* leaves the set of IDs that have a record as it was; the records a run
\* carries after the scan have the same shape.
C27_OriginsOncePerFile ==
    /\ (audit = "java" /\ pc = "find_java_emitters") =>
          \A order \in Perms(JavaFiles) :
             LET scanned == find_java_emitters(messages, order)
             IN  /\ DOMAIN scanned = DOMAIN messages
                 /\ OriginListsExact(scanned)
    /\ (audit = "java" /\ pc = "find_go_implementations") =>
          \A code \in DOMAIN messages :
             LET l == messages[code].java_files
             IN  /\ \A i, j \in DOMAIN l : l[i] = l[j] => i = j
                 /\ Range(l) \subseteq OriginsOf(code)

\* the scan has run over a file that mentions every constant twice, and one
\* ID is recorded with two origins
C27_Witness ==
    /\ audit = "java" /\ pc = "find_go_implementations"
    /\ "src/main/java" \notin absent
    /\ Len(JavaFileRefs("OPFChecker")) = 2 * NumCodes
    /\ \E code \in DOMAIN messages :
          /\ Len(messages[code].java_files) = 2
          /\ Range(messages[code].java_files) = {"OPFChecker", "XHTMLChecker"}

\* the fields of a rule record
MessageFields ==
    {"code", "severity", "message_text", "java_files", "category",
     "in_go_code", "in_bdd_tests", "override_status", "override_note"}

\* `after` has the records of `before`, equal in every field outside `own`
ChangesOnly(before, after, own) ==
    /\ DOMAIN after = DOMAIN before
    /\ \A code \in DOMAIN before :
          \A f \in MessageFields \ own : after[code][f] = before[code][f]

\* C28: each pass after the enumeration changes only its own fields of the
\* rule records.  The severity pass changes only severity, the message-text
\* pass only message_text, origin discovery only java_files, the source
\* scanner only in_go_code, the test scanner only in_bdd_tests and the
\* override pass only override_status and override_note; so none of the last
\* four changes code, category, severity or message_text.  generate_report
\* and the report printers change no field of any record, and the records of
\* the result are the records of the table.
C28_PassesChangeOwnFields ==
    [][audit = "java" =>
        /\ pc = "parse_severities" =>
              ChangesOnly(messages, messages', {"severity"})
        /\ pc = "parse_message_texts" =>
              ChangesOnly(messages, messages', {"message_text"})
        /\ pc = "find_java_emitters" =>
              ChangesOnly(messages, messages', {"java_files"})
        /\ pc = "find_go_implementations" =>
              ChangesOnly(messages, messages', {"in_go_code"})
        /\ pc = "find_bdd_coverage" =>
              ChangesOnly(messages, messages', {"in_bdd_tests"})
        /\ pc = "apply_overrides" =>
              ChangesOnly(messages, messages',
                          {"override_status", "override_note"})
        /\ pc = "generate_report" =>
              /\ messages' = messages
              /\ \A i \in DOMAIN result'.messages :
                    result'.messages[i] = messages[result'.messages[i].code]
        /\ pc \in {"print_report", "exit"} =>
              /\ messages' = messages
              /\ result' = result]_vars

\* every pass has acted on one record: it has a severity, a text, an origin,
\* both kinds of evidence and an override, and the report has been printed
C28_Witness ==
    /\ audit = "java" /\ pc = "exit"
    /\ \E code \in DOMAIN messages :
          /\ messages[code].severity # ""
          /\ messages[code].message_text # ""
          /\ messages[code].java_files # <<>>
          /\ messages[code].in_go_code
          /\ messages[code].in_bdd_tests
          /\ messages[code].override_status # ""
          /\ messages[code].override_note # ""

-----------------------------------------------------------------------------
(* Properties of schematron-audit.py *)

\* the fixtures and the scenario skeletons of a run of --generate-tests
WrittenFixtures == SelectSeq(written, LAMBDA f : f.kind = "fixture")
WrittenSkeletons ==
    LET snippets == SelectSeq(written, LAMBDA f : f.kind = "snippet")
    IN  IF snippets = <<>> THEN <<>> ELSE snippets[1].content

\* C11: the scenario skeletons of a run correspond one to one to the
\* fixtures it wrote: every skeleton names a written fixture (same name and
\* extension), every written fixture is named by exactly one skeleton.
C11_SkeletonsMatchFixtures ==
    audit = "schematron" =>
        /\ \A i \in DOMAIN WrittenSkeletons :
              \E j \in DOMAIN WrittenFixtures :
                 /\ WrittenFixtures[j].name = WrittenSkeletons[i].fixture
                 /\ WrittenFixtures[j].ext = WrittenSkeletons[i].ext
        /\ \A j \in DOMAIN WrittenFixtures :
              Cardinality({i \in DOMAIN WrittenSkeletons :
                              /\ WrittenFixtures[j].name = WrittenSkeletons[i].fixture
                              /\ WrittenFixtures[j].ext = WrittenSkeletons[i].ext}) = 1

\* the abstract patterns a pass over a file can have collected: those of
\* the documents the snapshot can hold under that name
CollectedAbstracts(fname) ==
    UNION {abstracts(doc) : doc \in FileStates(fname)}

\* C12: every instance recorded by the extraction pass refers to an abstract
\* pattern collected in that pass; an instance whose is-a target was not
\* collected is reported as a defect and is not recorded as an ordinary
\* instance.
C12_InstanceTargetsExist ==
    audit = "schematron" =>
        \A i \in DOMAIN checks :
            checks[i].is_abstract_instance =>
                \/ checks[i].abstract_pattern \in CollectedAbstracts(checks[i].file)
                \/ Error(checks[i].pattern_id) \in Range(stderr)
                \/ Warning(checks[i].pattern_id) \in Range(stderr)

\* the discovered checks whose pattern the registry records with status `st`
ChecksRegisteredAs(st) ==
    {i \in DOMAIN checks :
        /\ checks[i].pattern_id \in DOMAIN known_checks
        /\ known_checks[checks[i].pattern_id].status = st}

\* the discovered checks whose pattern has no registry entry
ChecksUnregistered ==
    {i \in DOMAIN checks : checks[i].pattern_id \notin DOMAIN known_checks}

\* C21: when audit has returned, a discovered check is counted as missing
\* exactly when its pattern ID has no registry entry, as partial exactly
\* when the registry status is partial, and as implemented only when the
\* registry status is implemented: a pattern registered as wontfix is not
\* counted as implemented.
C21_DispositionIsRegistryStatus ==
    (audit = "schematron" /\ result # NoResult) =>
        /\ result.missing = Cardinality(ChecksUnregistered)
        /\ result.partial = Cardinality(ChecksRegisteredAs("partial"))
        /\ result.implemented = Cardinality(ChecksRegisteredAs("implemented"))

\* the same, with the patterns registered as wontfix counted as implemented
C21_WontfixCountsAsImplemented ==
    (audit = "schematron" /\ result # NoResult) =>
        /\ result.missing = Cardinality(ChecksUnregistered)
        /\ result.partial = Cardinality(ChecksRegisteredAs("partial"))
        /\ result.implemented = Cardinality(ChecksRegisteredAs("implemented"))
                                   + Cardinality(ChecksRegisteredAs("wontfix"))

\* the fixtures written for pattern `pid`
FixturesOf(pid) ==
    {j \in DOMAIN written : written[j].kind = "fixture" /\ written[j].rule = pid}

\* the first missing check of pattern `pid`
FirstMissingOf(pid) ==
    result.missing_checks[
        CHOOSE i \in DOMAIN result.missing_checks :
            /\ result.missing_checks[i].pattern_id = pid
            /\ \A k \in 1..(i - 1) : result.missing_checks[k].pattern_id # pid]

MissingPatternIds ==
    {result.missing_checks[i].pattern_id : i \in DOMAIN result.missing_checks}

\* what the generator registered for the abstract pattern of `c` yields
GeneratorYield(c) ==
    IF c.is_abstract_instance /\ c.abstract_pattern \in ABSTRACT_GENERATORS
    THEN ApplyGenerator(c.abstract_pattern, c.params)
    ELSE None

\* the IDs that have a hand-authored template
TemplateKeys ==
    CUSTOM_TEMPLATES \cup CONCRETE_FIXTURES \cup OPF_FIXTURES
        \cup OCF_METADATA_FIXTURES \cup CONTAINER_FIXTURES

\* fixture generation has run to its end
FixturesGenerated ==
    audit = "schematron" /\ "generate_tests" \in Range(trace) /\ written # <<>>

\* C22 as stated: at most one fixture per missing pattern ID; an instance
\* gets the output of the generator of its abstract pattern and nothing
\* else; a pattern that is not an instance gets the hand-authored template
\* keyed by its ID; a pattern with no strategy gets no file and the run
\* goes on.
C22_InstanceGeneratorElseTemplate ==
    FixturesGenerated =>
        /\ pc = "done" => exit_code # 1
        /\ \A pid \in MissingPatternIds :
              LET c   == FirstMissingOf(pid)
                  gen == GeneratorYield(c)
              IN  /\ Cardinality(FixturesOf(pid)) <= 1
                  /\ c.is_abstract_instance =>
                        /\ FixturesOf(pid) # {} <=> ~gen.none
                        /\ \A j \in FixturesOf(pid) : written[j].content.body = gen
                  /\ ~c.is_abstract_instance =>
                        /\ FixturesOf(pid) # {} <=> pid \in TemplateKeys
                        /\ \A j \in FixturesOf(pid) :
                              written[j].content.body = Body(pid, EmptyMap)

\* C22 (amended): at most one fixture per missing pattern ID; when the
\* pattern is an instance and the generator of its abstract pattern yields a
\* body, the fixture holds that body in the XHTML envelope; in every other
\* case (not an instance, no generator registered, or the generator yields
\* nothing) the hand-authored template keyed by the ID is used; a pattern
\* with neither gets no file and the run goes on.
C22_GeneratorThenTemplate ==
    FixturesGenerated =>
        /\ pc = "done" => exit_code # 1
        /\ \A pid \in MissingPatternIds :
              LET gen == GeneratorYield(FirstMissingOf(pid))
              IN  /\ Cardinality(FixturesOf(pid)) <= 1
                  /\ FixturesOf(pid) # {} <=> (~gen.none \/ pid \in TemplateKeys)
                  /\ \A j \in FixturesOf(pid) :
                        /\ ~gen.none =>
                              /\ written[j].content.body = gen
                              /\ written[j].content.template = "XHTML_TEMPLATE"
                        /\ gen.none =>
                              written[j].content.body = Body(pid, EmptyMap)
        /\ \A j \in DOMAIN written :
              written[j].kind = "fixture" => written[j].rule \in MissingPatternIds

\* a run that wrote a generated fixture, a template fixture for an instance
\* and one for a pattern with two assertions, and none for a third pattern
C22_Witness ==
    /\ FixturesGenerated
    /\ {"bdo-dir", "idref-mathml-xref", "link-sizes", "opf.uid"} \subseteq MissingPatternIds
    /\ \E j \in FixturesOf("bdo-dir") : written[j].content.body = GeneratorYield(FirstMissingOf("bdo-dir"))
    /\ FixturesOf("idref-mathml-xref") # {}
    /\ Cardinality(FixturesOf("link-sizes")) = 1
    /\ FixturesOf("opf.uid") = {}

\* position of a file in CORE_SCHEMAS
SchemaIndex(fname) == CHOOSE i \in DOMAIN CORE_SCHEMAS : CORE_SCHEMAS[i] = fname

\* the assertions of the concrete patterns of a document that are no
\* instances, as <<pattern, rule, child>> positions
ConcreteAssertions(doc) ==
    {t \in UNION { UNION { {<<p, r, k>> : k \in DOMAIN doc.patterns[p].rules[r].children} :
                             r \in DOMAIN doc.patterns[p].rules } :
                     p \in DOMAIN doc.patterns } :
        /\ ~doc.patterns[t[1]].abstract
        /\ doc.patterns[t[1]].is_a = ""
        /\ doc.patterns[t[1]].rules[t[2]].children[t[3]].kind \in {"assert", "report"}}

\* the patterns of a document that instantiate an abstract pattern
InstancePositions(doc) ==
    {p \in DOMAIN doc.patterns :
        ~doc.patterns[p].abstract /\ doc.patterns[p].is_a # ""}

\* what C23 asks of the checks `cs` extracted from the snapshot `files`
AbstractConcreteSplit(files, cs) ==
    /\ \A i, j \in DOMAIN cs :
          i < j => SchemaIndex(cs[i].file) <= SchemaIndex(cs[j].file)
    /\ \A f \in Range(CORE_SCHEMAS) :
          LET doc  == files[f]
              Of   == {i \in DOMAIN cs : cs[i].file = f}
          IN  /\ doc.state = "absent" => Of = {}
              /\ \A p \in DOMAIN doc.patterns :
                    doc.patterns[p].abstract =>
                       \A i \in Of :
                          /\ cs[i].pattern_id # doc.patterns[p].id
                          /\ \A r \in DOMAIN doc.patterns[p].rules :
                                cs[i].context # doc.patterns[p].rules[r].context
              /\ \A p \in InstancePositions(doc) :
                    LET mine == {i \in Of : cs[i].pattern_id = doc.patterns[p].id}
                    IN  /\ Cardinality(mine) = 1
                        /\ \A i \in mine :
                              /\ cs[i].is_abstract_instance
                              /\ cs[i].check_type = "instance"
                              /\ cs[i].abstract_pattern = doc.patterns[p].is_a
                              /\ cs[i].params = doc.patterns[p].params
              /\ Cardinality(Of) = Cardinality(InstancePositions(doc))
                                      + Cardinality(ConcreteAssertions(doc))

\* C23: an abstract pattern never contributes a discovered check; a pattern
\* that instantiates an abstract one contributes exactly one check, under
\* its own ID, bound to the parent pattern's name and the supplied
\* parameters, and none from the rules nested inside it; the checks follow
\* the configured order of the files.  The property is stated of the
\* extraction of every snapshot and of the checks a run holds.
C23_AbstractConcreteSplit ==
    /\ (audit = "schematron" /\ pc = "parse_schematron") =>
          \A files \in SchSnapshots :
             ~parse_schematron(files, CORE_SCHEMAS).raised =>
                AbstractConcreteSplit(files, parse_schematron(files, CORE_SCHEMAS).checks)
    /\ (audit = "schematron" /\ pc # "parse_schematron") =>
          /\ \A i, j \in DOMAIN checks :
                i < j => SchemaIndex(checks[i].file) <= SchemaIndex(checks[j].file)
          /\ \A i \in DOMAIN checks :
                /\ checks[i].is_abstract_instance <=> checks[i].check_type = "instance"
                /\ checks[i].is_abstract_instance =>
                      /\ checks[i].abstract_pattern # ""
                      /\ \A j \in DOMAIN checks :
                            (checks[j].file = checks[i].file
                               /\ checks[j].pattern_id = checks[i].pattern_id) => j = i
                /\ checks[i].pattern_id # "required-attr"

\* a run that extracted the instance with a nested rule, from the second
\* file, after the checks of the first file
C23_Witness ==
    /\ audit = "schematron" /\ pc = "audit"
    /\ \E i, j \in DOMAIN checks :
          /\ i < j
          /\ checks[i].file = CORE_SCHEMAS[1]
          /\ checks[j].pattern_id = "ghost-inst"
          /\ checks[j].abstract_pattern = "ghost"
    /\ \E k \in DOMAIN checks : checks[k].file = CORE_SCHEMAS[3]

\* C24: when audit has returned, total_patterns is the number of distinct
\* pattern IDs among the discovered checks, total_checks the number of
\* check occurrences, total_patterns <= total_checks, and every occurrence
\* is counted in exactly one of the buckets implemented, partial, missing.
C24_AuditTotals ==
    (audit = "schematron" /\ result # NoResult) =>
        /\ result.total_patterns
              = Cardinality({checks[i].pattern_id : i \in DOMAIN checks})
        /\ result.total_checks = Len(checks)
        /\ result.total_patterns <= result.total_checks
        /\ result.implemented + result.partial + result.missing
              = result.total_checks
        /\ Len(result.missing_checks) = result.missing
        /\ Len(result.partial_checks) = result.partial

\* an audit of a pattern with several checks in which all three buckets and
\* a pattern registered as wontfix occur
C24_Witness ==
    /\ audit = "schematron" /\ result # NoResult
    /\ result.total_patterns < result.total_checks
    /\ result.implemented > 0 /\ result.partial > 0 /\ result.missing > 0
    /\ \E i \in DOMAIN checks :
          /\ checks[i].pattern_id \in DOMAIN known_checks
          /\ known_checks[checks[i].pattern_id].status = "wontfix"

\* the JSON report of the assertion audit has been printed
JsonReportPrinted == audit = "schematron" /\ stdout.kind = "json"

\* the pattern IDs of the check occurrences `occ`
PatternsOf(occ) == {checks[i].pattern_id : i \in occ}

\* C29: in the JSON report of the assertion audit the missing count of the
\* summary equals the number of entries of the missing list, and the
\* partial count the number of entries of the partial list.
C29_CountsEqualListLengths ==
    JsonReportPrinted =>
        /\ stdout.summary.missing = Len(stdout.missing)
        /\ stdout.summary.partial = Len(stdout.partial)

\* C29 as the code has it: the counts of the summary are numbers of check
\* occurrences, the lists have one entry for each distinct pattern ID; so a
\* count is at least the length of its list, and equal to it exactly when
\* no pattern of the list has more than one check.
C29_CountsOccurrencesListsPatterns ==
    JsonReportPrinted =>
        /\ stdout.summary.missing = Cardinality(ChecksUnregistered)
        /\ stdout.summary.partial = Cardinality(ChecksRegisteredAs("partial"))
        /\ Len(stdout.missing) = Cardinality(PatternsOf(ChecksUnregistered))
        /\ Len(stdout.partial)
              = Cardinality(PatternsOf(ChecksRegisteredAs("partial")))
        /\ \A i, j \in DOMAIN stdout.missing :
              stdout.missing[i].pattern_id = stdout.missing[j].pattern_id
                 => i = j
        /\ \A i, j \in DOMAIN stdout.partial :
              stdout.partial[i].pattern_id = stdout.partial[j].pattern_id
                 => i = j
        /\ Len(stdout.missing) <= stdout.summary.missing
        /\ Len(stdout.partial) <= stdout.summary.partial
        /\ (Len(stdout.missing) = stdout.summary.missing) <=>
              \A i, j \in ChecksUnregistered :
                 checks[i].pattern_id = checks[j].pattern_id => i = j
        /\ (Len(stdout.partial) = stdout.summary.partial) <=>
              \A i, j \in ChecksRegisteredAs("partial") :
                 checks[i].pattern_id = checks[j].pattern_id => i = j

\* a JSON report in which a missing pattern and a partial pattern each have
\* more than one check
C29_Witness ==
    /\ JsonReportPrinted
    /\ Len(stdout.missing) > 0
    /\ Len(stdout.missing) < stdout.summary.missing
    /\ Len(stdout.partial) > 0
    /\ Len(stdout.partial) < stdout.summary.partial

-----------------------------------------------------------------------------
(* Properties of relaxng-audit.py *)

\* the registry records an implemented check under `key`
RecordsImplemented(key) ==
    \E i \in DOMAIN known_checks :
        known_checks[i].key = key /\ known_checks[i].status = "implemented"

\* the Gap Items of the phrasing-only analysis that name element E
PhrasingGapsNaming(E) ==
    {i \in DOMAIN gaps : /\ gaps[i].description.rule = "phrasing-only"
                         /\ gaps[i].affected_elements = <<E>>}

HighPhrasingParents ==
    {<<"p">>, <<"h", "1">>, <<"h", "2">>, <<"h", "3">>, <<"h", "4">>, <<"h", "5">>, <<"h", "6">>, <<"s", "p", "a", "n">>}

\* C14: when analyze_gaps has returned, every element E of the phrasing-only set
\* has exactly one Gap Item naming it if the registry records neither an
\* implemented '<E>-phrasing-only' nor an implemented 'block-in-phrasing',
\* and none otherwise; the item has priority high for p, h1..h6 and span and
\* medium for the other elements.
C14_PhrasingGaps ==
    (audit = "relaxng" /\ pc = "print_report") =>
        \A E \in Range(SortedPhrasingParents) :
            /\ Cardinality(PhrasingGapsNaming(E))
                  = IF RecordsImplemented(E \o <<"-", "p", "h", "r", "a", "s", "i", "n", "g", "-", "o", "n", "l", "y">>)
                          \/ RecordsImplemented(<<"b", "l", "o", "c", "k", "-", "i", "n", "-", "p", "h", "r", "a", "s", "i", "n", "g">>)
                    THEN 0 ELSE 1
            /\ \A i \in PhrasingGapsNaming(E) :
                  gaps[i].priority
                     = IF E \in HighPhrasingParents THEN "high" ELSE "medium"

C14_Witness ==
    /\ audit = "relaxng" /\ pc = "print_report"
    /\ \E i \in DOMAIN known_checks :
          known_checks[i].key = <<"b", "l", "o", "c", "k", "-", "i", "n", "-", "p", "h", "r", "a", "s", "i", "n", "g">> /\ known_checks[i].status = "partial"
    /\ ~RecordsImplemented(<<"s", "p", "a", "n", "-", "p", "h", "r", "a", "s", "i", "n", "g", "-", "o", "n", "l", "y">>)
    /\ \E i \in PhrasingGapsNaming(<<"s", "p", "a", "n">>) : gaps[i].priority = "high"
    /\ \E i \in PhrasingGapsNaming(<<"e", "m">>) : gaps[i].priority = "medium"

\* `w` is one of the words of `key` (the parts between its hyphens)
HasWord(key, w) ==
    \E i \in 1..(Len(key) - Len(w) + 1) :
        /\ SubSeq(key, i, i + Len(w) - 1) = w
        /\ i = 1 \/ key[i - 1] = "-"
        /\ i + Len(w) - 1 = Len(key) \/ key[i + Len(w)] = "-"

\* the Gap Items of rule `rule` about element `elem`
GapsAbout(rule, elem) ==
    {i \in DOMAIN gaps : gaps[i].description = [rule |-> rule, elem |-> elem]}

TransparentElements ==
    {<<"a">>, <<"i", "n", "s">>, <<"d", "e", "l">>, <<"o", "b", "j", "e", "c", "t">>, <<"v", "i", "d", "e", "o">>, <<"a", "u", "d", "i", "o">>, <<"m", "a", "p">>}

\* an implemented check covers the children of `parent`: the three general
\* checks, or a check whose name names the parent
CoversRestrictedParent(parent) ==
    \/ /\ RecordsImplemented(<<"u", "l", "-", "o", "l", "-", "c", "h", "i", "l", "d", "r", "e", "n">>)
       /\ RecordsImplemented(<<"t", "r", "-", "c", "h", "i", "l", "d", "r", "e", "n">>)
       /\ RecordsImplemented(<<"d", "l", "-", "s", "t", "r", "u", "c", "t", "u", "r", "e">>)
    \/ \E i \in DOMAIN known_checks :
          /\ HasWord(known_checks[i].key, parent)
          /\ known_checks[i].status = "implemented"

\* an implemented check covers the transparent content model of `elem`: the
\* general check, or a transparency check whose name names the element
CoversTransparent(elem) ==
    \/ RecordsImplemented(<<"a", "-", "t", "r", "a", "n", "s", "p", "a", "r", "e", "n", "t", "-", "f", "l", "o", "w">>)
    \/ \E i \in DOMAIN known_checks :
          /\ HasWord(known_checks[i].key, elem)
          /\ HasWord(known_checks[i].key, <<"t", "r", "a", "n", "s", "p", "a", "r", "e", "n", "t">>)
          /\ known_checks[i].status = "implemented"

\* a Gap Item is emitted exactly when no implemented check covers the element
GapsExactlyWhenUncovered ==
    /\ Cardinality(GapsAbout("void", <<>>))
          = IF RecordsImplemented(<<"v", "o", "i", "d", "-", "e", "l", "e", "m", "e", "n", "t", "s", "-", "n", "o", "-", "c", "h", "i", "l", "d", "r", "e", "n">>) THEN 0 ELSE 1
    /\ \A r \in Range(SortedRestrictedChildren) :
          Cardinality(GapsAbout("restricted-children", r.parent))
             = IF CoversRestrictedParent(r.parent) THEN 0 ELSE 1
    /\ \A elem \in TransparentElements :
          Cardinality(GapsAbout("transparent", elem))
             = IF CoversTransparent(elem) THEN 0 ELSE 1

\* the Gap Items for restricted-children parents and transparent-content
\* elements have priority low
RestrictedAndTransparentLow ==
    \A i \in DOMAIN gaps :
        gaps[i].description.rule \in {"restricted-children", "transparent"}
           => gaps[i].priority = "low"

\* C20: when analyze_gaps has returned, the void elements, every
\* restricted-children parent and every transparent-content element have a
\* Gap Item exactly when no implemented check of the registry covers them,
\* and every Gap Item for a restricted-children parent or a
\* transparent-content element has priority low.
C20_GapsForUncoveredElements ==
    (audit = "relaxng" /\ pc = "print_report") =>
        GapsExactlyWhenUncovered /\ RestrictedAndTransparentLow

\* position in GrammarFiles of the first file of the snapshot that defines
\* the tag `name`
FirstDefinition(files, name) ==
    CHOOSE k \in DOMAIN GrammarFiles :
        LET Defines(n) ==
                /\ files[GrammarFiles[n]].state = "ok"
                /\ \E m \in DOMAIN files[GrammarFiles[n]].elems :
                      files[GrammarFiles[n]].elems[m].elem_name = name
        IN  Defines(k) /\ \A n \in 1..(k - 1) : ~Defines(n)

\* the record of the tag `name` among the extracted elements
ElementNamed(elems, name) ==
    elems[CHOOSE i \in DOMAIN elems : elems[i].name = name]

\* the fields of an element record that C25 names
DefinitionFields(e) ==
    <<e.source_file, e.content_model, e.content_detail, e.is_void>>

\* the record of every element is the one that the files up to and
\* including its first definition give
FirstDefinitionWins(files) ==
    LET all == parse_rnc_files(files, GrammarFiles).elements
    IN  \A i \in DOMAIN all :
           LET k     == FirstDefinition(files, all[i].name)
               early == parse_rnc_files(files, SubSeq(GrammarFiles, 1, k)).elements
           IN  DefinitionFields(ElementNamed(early, all[i].name))
                  = DefinitionFields(all[i])

\* C25: when a tag is defined in more than one grammar file, the first
\* definition in configured file order wins: source file, content model,
\* content detail and void flag of its record are those that parsing only
\* the files up to and including the first definition gives; a later
\* definition of the tag or of its inner pattern changes nothing.
C25_FirstDefinitionWins ==
    (audit = "relaxng" /\ pc = "parse_rnc_files") =>
        \A files \in RngSnapshots : FirstDefinitionWins(files)

\* the part of C25 about the definition of the tag itself: the source file
\* of a record is the first file that defines the tag
C25_SourceFileIsFirst ==
    (audit = "relaxng" /\ pc = "parse_rnc_files") =>
        \A files \in RngSnapshots :
            LET all == parse_rnc_files(files, GrammarFiles).elements
            IN  \A i \in DOMAIN all :
                   all[i].source_file
                      = GrammarFiles[FirstDefinition(files, all[i].name)]

EmptyModelElements ==
    {i \in DOMAIN elements : elements[i].content_model = "empty"}

\* C30: after grammar extraction the void flag of every element agrees with
\* its content model: is_void is true exactly when content_model is
\* "empty", so the void-element count of the report summary is the number
\* of elements whose content model is empty.
C30_VoidFlagAgreesWithContentModel ==
    audit = "relaxng" =>
        /\ \A i \in DOMAIN elements :
              elements[i].is_void <=> elements[i].content_model = "empty"
        /\ RngSummary(elements, gaps, known_checks).void_elements
              = Cardinality(EmptyModelElements)

\* the direction of C30 that the extraction keeps: a void flag is only set
\* together with the empty content model
C30_VoidImpliesEmpty ==
    audit = "relaxng" =>
        \A i \in DOMAIN elements :
           elements[i].is_void => elements[i].content_model = "empty"

-----------------------------------------------------------------------------
(* Properties of the fixture generators of schematron-audit.py *)

\* a missing check that is an instance of required-attr with both parameters
RequiredAttrInstance(c) ==
    /\ c.is_abstract_instance
    /\ c.abstract_pattern = "required-attr"
    /\ {"elem", "attr"} \subseteq DOMAIN c.params
    /\ c.params["elem"] # <<>> /\ c.params["attr"] # <<>>

\* C16: for a missing instance of required-attr whose parameters elem and
\* attr are both non-empty, the fixture written is the XHTML envelope whose
\* body holds the element, its namespace prefix stripped, in a start tag
\* without attributes.
C16_RequiredAttrFixture ==
    (audit = "schematron" /\ pc = "exit" /\ "generate_tests" \in Range(trace)) =>
        \A k \in DOMAIN result.missing_checks :
            LET c == result.missing_checks[k]
            IN  RequiredAttrInstance(c) =>
                  \E j \in DOMAIN written :
                     /\ written[j].kind = "fixture"
                     /\ written[j].rule = c.pattern_id
                     /\ written[j].dir = "xhtml" /\ written[j].ext = ".xhtml"
                     /\ written[j].content.template = "XHTML_TEMPLATE"
                     /\ written[j].content.pattern_id = c.pattern_id
                     /\ written[j].content.body.template
                           = "<p><{elem}>missing {attr} attribute</{elem}></p>"
                     /\ written[j].content.body.args.attr = c.params["attr"]
                     /\ ":" \notin Range(written[j].content.body.args.elem)
                     /\ EndsWith(c.params["elem"], written[j].content.body.args.elem)

C16_Witness ==
    /\ audit = "schematron" /\ pc = "exit"
    /\ \E j \in DOMAIN written :
          /\ written[j].kind = "fixture" /\ written[j].rule = "bdo-dir"
          /\ written[j].content.body.args = [elem |-> <<"b", "d", "o">>, attr |-> <<"d", "i", "r">>]

-----------------------------------------------------------------------------
(* Properties of main() *)

IsPrefix(s, t) == Len(s) <= Len(t) /\ s = SubSeq(t, 1, Len(s))

Emitters == {"print_json_report", "print_text_report"}

\* the stages of a whole run, in the order of main(), with emitter e
StageOrder(e) ==
    CASE audit = "java" ->
            <<"ensure_epubcheck", "parse_message_ids", "parse_severities",
              "parse_message_texts", "find_java_emitters",
              "find_go_implementations", "find_bdd_coverage", "apply_overrides",
              "generate_report", e>>
      [] audit = "schematron" ->
            <<"locate_schemas", "parse_schematron", "audit", e, "generate_tests">>
      [] audit = "relaxng" ->
            <<"locate_schemas", "parse_rnc_files", "analyze_gaps", e,
              "generate_tests">>

\* C17: the stages of a run are run in the order of main(), each at most
\* once: extraction before scanning, the scanners and the override pass
\* before reconciliation, one emitter (text or JSON) after reconciliation,
\* and fixture generation only after the report.
C17_StagesInSequence ==
    /\ \E e \in Emitters : IsPrefix(trace, StageOrder(e))
    /\ stdout # NoReport =>
          /\ Cardinality(Emitters \cap Range(trace)) = 1
          /\ audit = "java" => result # NoResult /\ "apply_overrides" \in Range(trace)
          /\ audit = "schematron" => result # NoResult
    /\ written # <<>> => stdout # NoReport /\ "generate_tests" \in Range(trace)

C17_Witness ==
    /\ audit = "java" /\ pc = "done" /\ exit_code = 0
    /\ trace = StageOrder("print_text_report")

====
